---- MODULE Spec2Model ----
(***************************************************************************)
(* The integrator's worklist fixpoint (HypotheticalConstantFolder.cpp):    *)
(* block liveness (checkBlock), speculative evaluation (tryEvaluate,       *)
(* checkLoad) and dead-value elimination (tryKillValue), run over the      *)
(* context tree of one analysed function:                                  *)
(*                                                                         *)
(*   main:                                                                 *)
(*     entry: c = load gc; n = load gn; k = load gk; al = alloca           *)
(*            br c, A, B                                                   *)
(*     A:     a = call g(k); br H                ; preheader of loop L     *)
(*     H:     i = phi [0,A],[inc,T]; s = phi [0,A],[s2,T]                  *)
(*            t = icmp slt i, n; br t, T, E      ; header of L             *)
(*     T:     inc = add i, 1; s2 = add s, a; br H ; latch of L             *)
(*     E:     r = phi [s,H]; br M                ; exit block (LCSSA phi)  *)
(*     B:     b = load gb; br M                                            *)
(*     M:     x = phi [r,E],[b,B]; y = phi [1,E],[b,B];                    *)
(*            z = phi [al,E],[al,B]; ret x                                 *)
(*   g(p):                                                                 *)
(*     gentry: d = add p, p; ret d                                         *)
(*                                                                         *)
(* Contexts: "root" (the InlineAttempt of main), "ia" (the InlineAttempt   *)
(* of the call a), and "it0", "it1", ... (the PeelIterations of L).        *)
(* What each load forwards to is the memory-dependence oracle's answer,    *)
(* drawn once in Init.                                                     *)
(***************************************************************************)
EXTENDS Integers, Sequences, FiniteSets, TLC

\* Largest trip count the oracle may report for n.
MaxTrip == 2
\* Iterations one peel attempt may hold before speculation is abandoned.
MaxIter == 4

VARIABLES memory, deadBlocks, deadEdges, certainBlocks, improvedValues,
          deadValues, iterStatus, Iterations, inlineChildren,
          checkBlockQ, tryEvaluateQ, checkLoadQ, dieQ, dieStarted, last

\* The analyses the integrator calls on: a pointer chase and an alias query
\* of BasicAliasAnalysis, the inline attempts of LoopPeelHeuristics, and an
\* IAWalker.  Each is a record; it is Idle while no such call is in progress.
VARIABLES chase, query, attempts, walker

integratorVars ==
  <<memory, deadBlocks, deadEdges, certainBlocks, improvedValues,
    deadValues, iterStatus, Iterations, inlineChildren,
    checkBlockQ, tryEvaluateQ, checkLoadQ, dieQ, dieStarted, last>>

Idle == [pc |-> "idle"]

vars == <<memory, deadBlocks, deadEdges, certainBlocks, improvedValues,
          deadValues, iterStatus, Iterations, inlineChildren,
          checkBlockQ, tryEvaluateQ, checkLoadQ, dieQ, dieStarted, last,
          chase, query, attempts, walker>>

-----------------------------------------------------------------------------
(* Values and value-context pairs *)

VCNull == [kind |-> "null", name |-> "", num |-> 0, ctx |-> ""]

const_vc(n) == [kind |-> "const", name |-> "", num |-> n, ctx |-> ""]

make_vc(v, c) == [kind |-> "val", name |-> v, num |-> 0, ctx |-> c]

\* An operand as written in the program: a constant, a global, or a value name.
Global(g) == [kind |-> "const", name |-> g, num |-> 0, ctx |-> ""]

Ref(v) == make_vc(v, "")

isConstant(o) == o.kind = "const"

-----------------------------------------------------------------------------
(* The program *)

IterNames == <<"it0", "it1", "it2", "it3", "it4", "it5">>

IterCtx == {IterNames[j] : j \in 1..MaxIter}

Ctx == {"root", "ia", "root2"} \cup IterCtx

iterationCount(c) == CHOOSE j \in 0..(Len(IterNames) - 1) : IterNames[j + 1] = c

getIteration(j) == IterNames[j + 1]

isIteration(c) == c \in IterCtx

parent(c) == IF c \in {"root", "root2"} THEN "" ELSE "root"

getLoopContext(c) == IF isIteration(c) THEN "L" ELSE "none"

CtxFunction(c) ==
  IF c = "ia" THEN "g" ELSE IF c = "root2" THEN "f2" ELSE "main"

\* The blocks of f2, whose two loops cannot be peeled: V has no preheader
\* (the block that enters it has a second successor) and W has no latch (two
\* blocks branch back to its header).
F2Blocks == {"uentry", "VH", "VB", "VT", "Q", "WH", "WA", "WB", "R"}

Blocks == {"entry", "A", "H", "T", "E", "B", "M", "gentry"} \cup F2Blocks

BlockFunction(b) ==
  IF b = "gentry" THEN "g" ELSE IF b \in F2Blocks THEN "f2" ELSE "main"

getEntryBlock(c) ==
  IF isIteration(c) THEN "H" ELSE IF c = "ia" THEN "gentry"
  ELSE IF c = "root2" THEN "uentry" ELSE "entry"

succ(b) ==
  CASE b = "entry" -> <<"A", "B">>
    [] b = "A" -> <<"H">>
    [] b = "H" -> <<"T", "E">>
    [] b = "T" -> <<"H">>
    [] b = "E" -> <<"M">>
    [] b = "B" -> <<"M">>
    [] b = "uentry" -> <<"VH", "Q">>
    [] b = "VH" -> <<"VB", "VT">>
    [] b = "VB" -> <<"VT">>
    [] b = "VT" -> <<"VH", "Q">>
    [] b = "Q" -> <<"WH">>
    [] b = "WH" -> <<"WA", "WB">>
    [] b = "WA" -> <<"WH", "R">>
    [] b = "WB" -> <<"WH">>
    [] OTHER -> <<>>

pred(b) ==
  CASE b = "A" -> <<"entry">>
    [] b = "B" -> <<"entry">>
    [] b = "H" -> <<"A", "T">>
    [] b = "T" -> <<"H">>
    [] b = "E" -> <<"H">>
    [] b = "M" -> <<"E", "B">>
    [] b = "VH" -> <<"uentry", "VT">>
    [] b = "VB" -> <<"VH">>
    [] b = "VT" -> <<"VH", "VB">>
    [] b = "Q" -> <<"uentry", "VT">>
    [] b = "WH" -> <<"Q", "WA", "WB">>
    [] b = "WA" -> <<"WH">>
    [] b = "WB" -> <<"WH">>
    [] b = "R" -> <<"WA">>
    [] OTHER -> <<>>

Range(q) == {q[j] : j \in 1..Len(q)}

Edges == {<<f, t>> \in Blocks \X Blocks : t \in Range(succ(f))}

getLoopFor(b) ==
  IF b \in {"H", "T"} THEN "L"
  ELSE IF b \in {"VH", "VB", "VT"} THEN "V"
  ELSE IF b \in {"WH", "WA", "WB"} THEN "W" ELSE "none"

getHeader(l) == IF l = "V" THEN "VH" ELSE IF l = "W" THEN "WH" ELSE "H"

\* The empty name stands for the null pointer: V has no preheader.
getLoopPreheader(l) == IF l = "V" THEN "" ELSE IF l = "W" THEN "Q" ELSE "A"

\* W has no latch.
getLoopLatch(l) == IF l = "V" THEN "VT" ELSE IF l = "W" THEN "" ELSE "T"

getExitEdges(l) ==
  IF l = "V" THEN << <<"VT", "Q">> >>
  ELSE IF l = "W" THEN << <<"WA", "R">> >> ELSE << <<"H", "E">> >>

\* Loop::contains(Loop): a null receiver stands for the function's top level.
LoopContains(outer, inner) == outer = inner \/ (outer = "none" /\ inner # "none")

LoopContainsBlock(l, b) == getLoopFor(b) = l

I(o, b, ops, blks, ptr) ==
  [op |-> o, bb |-> b, ops |-> ops, blocks |-> blks, pointer |-> ptr]

Inst ==
     "c"      :> I("load", "entry", <<Global("gc")>>, <<>>, FALSE)
  @@ "n"      :> I("load", "entry", <<Global("gn")>>, <<>>, FALSE)
  @@ "k"      :> I("load", "entry", <<Global("gk")>>, <<>>, FALSE)
  @@ "al"     :> I("alloca", "entry", <<>>, <<>>, TRUE)
  @@ "br_e"   :> I("br", "entry", <<Ref("c")>>, <<>>, FALSE)
  @@ "a"      :> I("call", "A", <<Ref("k")>>, <<>>, FALSE)
  @@ "br_A"   :> I("br", "A", <<>>, <<>>, FALSE)
  @@ "i"      :> I("phi", "H", <<const_vc(0), Ref("inc")>>, <<"A", "T">>, FALSE)
  @@ "s"      :> I("phi", "H", <<const_vc(0), Ref("s2")>>, <<"A", "T">>, FALSE)
  @@ "t"      :> I("slt", "H", <<Ref("i"), Ref("n")>>, <<>>, FALSE)
  @@ "br_H"   :> I("br", "H", <<Ref("t")>>, <<>>, FALSE)
  @@ "inc"    :> I("add", "T", <<Ref("i"), const_vc(1)>>, <<>>, FALSE)
  @@ "s2"     :> I("add", "T", <<Ref("s"), Ref("a")>>, <<>>, FALSE)
  @@ "br_T"   :> I("br", "T", <<>>, <<>>, FALSE)
  @@ "r"      :> I("phi", "E", <<Ref("s")>>, <<"H">>, FALSE)
  @@ "br_E"   :> I("br", "E", <<>>, <<>>, FALSE)
  @@ "b"      :> I("load", "B", <<Global("gb")>>, <<>>, FALSE)
  @@ "br_B"   :> I("br", "B", <<>>, <<>>, FALSE)
  @@ "x"      :> I("phi", "M", <<Ref("r"), Ref("b")>>, <<"E", "B">>, FALSE)
  @@ "y"      :> I("phi", "M", <<const_vc(1), Ref("b")>>, <<"E", "B">>, FALSE)
  @@ "z"      :> I("phi", "M", <<Ref("al"), Ref("al")>>, <<"E", "B">>, TRUE)
  @@ "ret_M"  :> I("ret", "M", <<Ref("x")>>, <<>>, FALSE)
  @@ "d"      :> I("add", "gentry", <<Ref("p"), Ref("p")>>, <<>>, FALSE)
  @@ "ret_g"  :> I("ret", "gentry", <<Ref("d")>>, <<>>, FALSE)
  @@ "m1"     :> I("load", "uentry", <<Global("gm1")>>, <<>>, FALSE)
  @@ "m2"     :> I("load", "uentry", <<Global("gm2")>>, <<>>, FALSE)
  @@ "br_u"   :> I("br", "uentry", <<Ref("m1")>>, <<>>, FALSE)
  @@ "br_VH"  :> I("br", "VH", <<Ref("m2")>>, <<>>, FALSE)
  @@ "br_VB"  :> I("br", "VB", <<>>, <<>>, FALSE)
  @@ "vt"     :> I("load", "VT", <<Global("gv")>>, <<>>, FALSE)
  @@ "br_VT"  :> I("br", "VT", <<Ref("vt")>>, <<>>, FALSE)
  @@ "br_Q"   :> I("br", "Q", <<>>, <<>>, FALSE)
  @@ "br_WH"  :> I("br", "WH", <<Ref("m2")>>, <<>>, FALSE)
  @@ "wa"     :> I("load", "WA", <<Global("gw")>>, <<>>, FALSE)
  @@ "br_WA"  :> I("br", "WA", <<Ref("wa")>>, <<>>, FALSE)
  @@ "br_WB"  :> I("br", "WB", <<>>, <<>>, FALSE)
  @@ "ret_R"  :> I("ret", "R", <<Ref("m2")>>, <<>>, FALSE)

\* Instructions in program order (function by function, block by block).
InstOrder ==
  <<"c", "n", "k", "al", "br_e", "a", "br_A", "i", "s", "t", "br_H", "inc",
    "s2", "br_T", "r", "br_E", "b", "br_B", "x", "y", "z", "ret_M", "d",
    "ret_g", "m1", "m2", "br_u", "br_VH", "br_VB", "vt", "br_VT", "br_Q",
    "br_WH", "wa", "br_WA", "br_WB", "ret_R">>

Instructions == Range(InstOrder)

Arguments == {"p"}

Values == Instructions \cup Arguments

Loads == {v \in Instructions : Inst[v].op = "load"}

isInstruction(v) == v \in Instructions

isArgument(v) == v \in Arguments

ValueFunction(v) ==
  IF isArgument(v) THEN "g" ELSE BlockFunction(Inst[v].bb)

\* The values a context can hold facts about.
CtxValues(c) ==
  {v \in Values :
     /\ ValueFunction(v) = CtxFunction(c)
     /\ isIteration(c) => (isInstruction(v) /\ getLoopFor(Inst[v].bb) = "L")}

BlockInsts(b) == SelectSeq(InstOrder, LAMBDA v : Inst[v].bb = b)

\* The use list of a value.
Users(v) ==
  SelectSeq(InstOrder,
            LAMBDA u : \E j \in 1..Len(Inst[u].ops) : Inst[u].ops[j] = Ref(v))

getIncomingValueForBlock(pn, b) ==
  LET j == CHOOSE j \in 1..Len(Inst[pn].blocks) : Inst[pn].blocks[j] = b
  IN  Inst[pn].ops[j]

\* The instructions that sit in a loop and compute only from values defined
\* outside every loop: the branches of VH and WH on m2.
LoopInvariants == {"br_VH", "br_WH"}

loopInvariant(v) == v \in LoopInvariants

\* The innermost loop a value depends on, which for an invariant instruction
\* is not the loop it sits in; every value of L's blocks varies in L.
getValueScope(o) ==
  IF o.kind = "val" /\ isInstruction(o.name) /\ ~loopInvariant(o.name)
  THEN getLoopFor(Inst[o.name].bb)
  ELSE "none"

\* The scope of the branch that decides an edge.
getEdgeScope(f, t) ==
  IF \E v \in LoopInvariants : Inst[v].bb = f THEN "none" ELSE getLoopFor(f)

-----------------------------------------------------------------------------
(* The state the operations work on, as one record *)

State ==
  [deadBlocks |-> deadBlocks, deadEdges |-> deadEdges,
   certainBlocks |-> certainBlocks, improvedValues |-> improvedValues,
   deadValues |-> deadValues, iterStatus |-> iterStatus,
   Iterations |-> Iterations, inlineChildren |-> inlineChildren,
   checkBlockQ |-> checkBlockQ, tryEvaluateQ |-> tryEvaluateQ,
   checkLoadQ |-> checkLoadQ, dieQ |-> dieQ]

\* A state together with the value an operation returns.
Ret(S, r) == [st |-> S, ret |-> r]

queueCheckBlock(S, c, b) == [S EXCEPT !.checkBlockQ = @ \cup {<<c, b>>}]

queueTryEvaluate(S, c, v) == [S EXCEPT !.tryEvaluateQ = @ \cup {<<c, v>>}]

queueCheckLoad(S, c, v) == [S EXCEPT !.checkLoadQ = @ \cup {<<c, v>>}]

passQueueDIE(S, c, v) == [S EXCEPT !.dieQ = @ \cup {<<c, v>>}]

blockIsDead(S, c, b) == b \in S.deadBlocks[c]

blockIsCertain(S, c, b) == b \in S.certainBlocks[c]

\* An edge decided at an outer scope than the context is asked of that scope.
edgeIsDead(S, c, f, t) ==
  IF isIteration(c) /\ getEdgeScope(f, t) = "none"
  THEN <<f, t>> \in S.deadEdges[parent(c)]
  ELSE <<f, t>> \in S.deadEdges[c]

setEdgeDead(S, c, f, t) == [S EXCEPT !.deadEdges[c] = @ \cup {<<f, t>>}]

\* The context that owns the dynamic instance of v seen from c.
ownerCtx(c, v) ==
  IF isIteration(c) /\ getValueScope(Ref(v)) = "none" THEN parent(c) ELSE c

getDefaultVC(c, o) ==
  IF isConstant(o) THEN o ELSE make_vc(o.name, ownerCtx(c, o.name))

getReplacement(S, c, o) ==
  IF isConstant(o) THEN o
  ELSE LET oc == ownerCtx(c, o.name)
       IN  IF S.improvedValues[oc][o.name] # VCNull
           THEN S.improvedValues[oc][o.name]
           ELSE make_vc(o.name, oc)

getConstReplacement(S, c, o) ==
  LET r == getReplacement(S, c, o) IN IF isConstant(r) THEN r ELSE VCNull

setReplacement(S, c, v, vc) == [S EXCEPT !.improvedValues[c][v] = vc]

getPeelAttempt(S, l) == l = "L" /\ S.Iterations > 0

getInlineAttempt(S, c, ci) == c = "root" /\ ci = "a" /\ S.inlineChildren

\* The last iteration a peel attempt holds.
lastIteration(S) == getIteration(S.Iterations - 1)

getNextIteration(S, c) ==
  IF iterationCount(c) + 1 < S.Iterations
  THEN getIteration(iterationCount(c) + 1) ELSE ""

isIdentifiedObject(vc) ==
  vc.kind = "val" /\ isInstruction(vc.name) /\ Inst[vc.name].op = "alloca"

isPointerTy(vc) ==
  vc.kind = "val" /\ isInstruction(vc.name) /\ Inst[vc.name].pointer

RECURSIVE getUltimateUnderlyingObject(_, _)
getUltimateUnderlyingObject(S, vc) ==
  IF vc.kind # "val" THEN vc
  ELSE LET NewV == getReplacement(S, vc.ctx, Ref(vc.name))
       IN  IF NewV = vc THEN NewV ELSE getUltimateUnderlyingObject(S, NewV)

\* The memory-dependence oracle's answer for a load.
tryForwardLoad(S, c, v) == memory[v]

\* ConstantFoldInstOperands / ConstantFoldCompareInstOperands on integers.
ConstantFold(op, cs) ==
  IF \E j \in 1..Len(cs) : cs[j].name # "" THEN VCNull
  ELSE CASE op = "add" -> const_vc(cs[1].num + cs[2].num)
         [] op = "slt" -> const_vc(IF cs[1].num < cs[2].num THEN 1 ELSE 0)
         [] OTHER -> VCNull

-----------------------------------------------------------------------------
(* Creating contexts *)

\* A peel attempt is made once the preheader is certain; it starts with
\* iteration 0, whose header is queued for a block check.
getOrCreatePeelAttempt(S, c, l) ==
  IF getPeelAttempt(S, l) THEN Ret(S, TRUE)
  ELSE IF /\ getHeader(l) # "" /\ getLoopPreheader(l) # ""
          /\ getLoopLatch(l) # ""
          /\ c = "root" /\ MaxIter > 0
          /\ blockIsCertain(S, c, getLoopPreheader(l))
  THEN Ret(queueCheckBlock([S EXCEPT !.Iterations = 1],
                           getIteration(0), getHeader(l)), TRUE)
  ELSE Ret(S, FALSE)

\* Iteration n+1 is made when every exit edge of iteration n is dead (the
\* loop is sure to iterate again), up to the iteration bound.
getOrCreateNextIteration(S, c) ==
  IF \/ getNextIteration(S, c) # ""
     \/ S.iterStatus[c] = "Final"
     \/ S.Iterations >= MaxIter
     \/ \E j \in 1..Len(getExitEdges("L")) :
          ~edgeIsDead(S, c, getExitEdges("L")[j][1], getExitEdges("L")[j][2])
  THEN S
  ELSE queueCheckBlock([S EXCEPT !.Iterations = @ + 1],
                       getIteration(S.Iterations), getHeader("L"))

\* The exit PHIs of L: PHIs outside L that read a value of L.
ExitPHIs ==
  SelectSeq(InstOrder,
            LAMBDA u : /\ Inst[u].op = "phi"
                       /\ getLoopFor(Inst[u].bb) = "none"
                       /\ \E j \in 1..Len(Inst[u].ops) :
                            getValueScope(Inst[u].ops[j]) = "L")

RECURSIVE queueTryEvaluateAll(_, _, _)
queueTryEvaluateAll(S, c, q) ==
  IF q = <<>> THEN S
  ELSE queueTryEvaluateAll(queueTryEvaluate(S, c, Head(q)), c, Tail(q))

\* The iteration is final once its latch edge is dead: the exit PHIs in the
\* parent are queued for evaluation.
checkFinalIteration(S, c) ==
  IF edgeIsDead(S, c, getLoopLatch("L"), getHeader("L"))
  THEN queueTryEvaluateAll([S EXCEPT !.iterStatus[c] = "Final"],
                           parent(c), ExitPHIs)
  ELSE S

\* An inline attempt is made for a call in a certain block; its arguments
\* known constant at the call site are seeded and their users queued.
getOrCreateInlineAttempt(S, c, ci) ==
  IF getInlineAttempt(S, c, ci) THEN Ret(S, TRUE)
  ELSE IF c = "root" /\ ci = "a" /\ blockIsCertain(S, c, Inst[ci].bb)
  THEN LET k  == getConstReplacement(S, c, Inst[ci].ops[1])
           S1 == queueCheckBlock([S EXCEPT !.inlineChildren = TRUE],
                                 "ia", "gentry")
       IN  IF k = VCNull THEN Ret(S1, TRUE)
           ELSE Ret(queueTryEvaluateAll(setReplacement(S1, "ia", "p", k),
                                        "ia", Users("p")), TRUE)
  ELSE Ret(S, FALSE)

\* The value the call's inline attempt returns: the replacement of the
\* operand of its live return instructions when they all agree.
tryGetReturnValue(S, ia) ==
  LET rets == {v \in Instructions :
                 /\ Inst[v].op = "ret" /\ ValueFunction(v) = CtxFunction(ia)
                 /\ ~blockIsDead(S, ia, Inst[v].bb)}
      vals == {getReplacement(S, ia, Inst[v].ops[1]) : v \in rets}
  IN  IF Cardinality(vals) = 1 THEN CHOOSE x \in vals : TRUE ELSE VCNull

\* The value the caller passes for an argument of an inline attempt.
getImprovedCallArgument(S, ia, arg) ==
  getReplacement(S, parent(ia), Inst["a"].ops[1])

-----------------------------------------------------------------------------
(* Edge checks *)

RECURSIVE killExitEdges(_, _, _, _)
killExitEdges(S, c, l, es) ==
  IF es = <<>> THEN S
  ELSE LET e  == Head(es)
           sc == getEdgeScope(e[1], e[2])
           S1 == IF sc = getLoopContext(c) \/ sc = l
                 THEN [S EXCEPT !.deadEdges[c] = @ \cup {e}] ELSE S
       IN  killExitEdges(queueCheckBlock(S1, c, e[2]), c, l, Tail(es))

\* IntegrationAttempt::checkLoopSpecialEdge: the edge that enters a child loop.
IAcheckLoopSpecialEdge(S, c, f, t) ==
  LET l == getLoopFor(t)
      isSpecialEdge == l # "none" /\ t = getHeader(l) /\ f = getLoopPreheader(l)
  IN  IF ~isSpecialEdge THEN Ret(S, FALSE)
      ELSE LET P == getOrCreatePeelAttempt(S, c, l)
           IN  IF ~P.ret /\ edgeIsDead(P.st, c, f, t)
               THEN Ret(killExitEdges(P.st, c, l, getExitEdges(l)), TRUE)
               ELSE Ret(P.st, TRUE)

\* The special edges of an iteration, where the next iteration is made
\* whatever the status of this one is.
PeelsAfterFinal(S, c, f, t) ==
  LET isSpecialBranchTarget ==
        \/ (f = getLoopLatch("L") /\ t = getHeader("L"))
        \/ ~LoopContainsBlock("L", t)
      N  == IF S.iterStatus[c] = "Unknown" THEN checkFinalIteration(S, c)
            ELSE S
      S1 == IF getNextIteration(N, c) = "" /\ N.Iterations < MaxIter
            THEN queueCheckBlock([N EXCEPT !.Iterations = @ + 1],
                                 getIteration(N.Iterations), getHeader("L"))
            ELSE N
  IN  IF isSpecialBranchTarget THEN Ret(S1, TRUE)
      ELSE IAcheckLoopSpecialEdge(S, c, f, t)

\* The special edges of an iteration, without the check for the final
\* iteration.
NoFinalCheck(S, c, f, t) ==
  LET isSpecialBranchTarget ==
        \/ (f = getLoopLatch("L") /\ t = getHeader("L"))
        \/ ~LoopContainsBlock("L", t)
      S1 == IF S.iterStatus[c] = "Unknown" /\ isSpecialBranchTarget
            THEN getOrCreateNextIteration(S, c)
            ELSE S
  IN  IF isSpecialBranchTarget THEN Ret(S1, TRUE)
      ELSE IAcheckLoopSpecialEdge(S, c, f, t)

\* PeelIteration::checkLoopSpecialEdge: the latch edge and the exit edges.
PIcheckLoopSpecialEdge(S, c, f, t) ==
  LET isSpecialBranchTarget ==
        \/ (f = getLoopLatch("L") /\ t = getHeader("L"))
        \/ ~LoopContainsBlock("L", t)
      S1 == IF S.iterStatus[c] = "Unknown" /\ isSpecialBranchTarget
            THEN LET N == getOrCreateNextIteration(S, c)
                 IN  IF N.iterStatus[c] = "Unknown"
                     THEN checkFinalIteration(N, c) ELSE N
            ELSE S
  IN  IF isSpecialBranchTarget THEN Ret(S1, TRUE)
      ELSE IAcheckLoopSpecialEdge(S, c, f, t)

checkLoopSpecialEdge(S, c, f, t) ==
  IF isIteration(c) THEN PIcheckLoopSpecialEdge(S, c, f, t)
  ELSE IAcheckLoopSpecialEdge(S, c, f, t)

checkLocalEdge(S, c, f, t) ==
  LET R == checkLoopSpecialEdge(S, c, f, t)
  IN  IF ~R.ret THEN queueCheckBlock(R.st, c, t) ELSE R.st

\* The loop over the iterations of the child peel attempt; its bound is read
\* again on every round, so an iteration made on the way is covered too.
RECURSIVE checkVariantEdgeFrom(_, _, _, _)
checkVariantEdgeFrom(S, j, f, t) ==
  IF j >= S.Iterations THEN S
  ELSE checkVariantEdgeFrom(checkLocalEdge(S, getIteration(j), f, t),
                            j + 1, f, t)

checkVariantEdge(S, c, f, t, ScopeL) ==
  IF getLoopContext(c) = ScopeL THEN checkLocalEdge(S, c, f, t)
  ELSE IF getPeelAttempt(S, ScopeL) THEN checkVariantEdgeFrom(S, 0, f, t)
  ELSE S

checkEdge(S, c, f, t) ==
  LET EdgeScope == getEdgeScope(f, t)
  IN  IF EdgeScope = "none" \/ LoopContains(EdgeScope, getLoopContext(c))
      THEN checkLocalEdge(S, c, f, t)
      ELSE checkVariantEdge(S, c, f, t, EdgeScope)

-----------------------------------------------------------------------------
(* checkBlock *)

shouldCheckBlock(S, c, b) == ~(blockIsDead(S, c, b) \/ blockIsCertain(S, c, b))

\* isDead after the scan of the predecessors.
AnyEdgeDead(S, c, b) ==
  /\ b # getEntryBlock(c)
  /\ \E j \in 1..Len(pred(b)) : edgeIsDead(S, c, pred(b)[j], b)

computeIsDead(S, c, b) ==
  /\ b # getEntryBlock(c)
  /\ \A j \in 1..Len(pred(b)) : edgeIsDead(S, c, pred(b)[j], b)

OtherSuccessorsIgnored(S, c, b) ==
  \/ b = getEntryBlock(c)
  \/ \A j \in 1..Len(pred(b)) :
       ~edgeIsDead(S, c, pred(b)[j], b) => blockIsCertain(S, c, pred(b)[j])

\* isCertain after the scan of the predecessors.
computeIsCertain(S, c, b) ==
  \/ b = getEntryBlock(c)
  \/ \A j \in 1..Len(pred(b)) :
       LET p == pred(b)[j]
       IN  ~edgeIsDead(S, c, p, b) =>
             /\ blockIsCertain(S, c, p)
             /\ \A q \in 1..Len(succ(p)) :
                  succ(p)[q] = b \/ edgeIsDead(S, c, p, succ(p)[q])

KeepCertain(isDead, isCertain) == isCertain

\* if(isDead && isCertain) isCertain = false;
resolveCertain(isDead, isCertain) == isCertain /\ ~isDead

RECURSIVE eraseAll(_, _, _)
eraseAll(S, c, q) ==
  IF q = <<>> THEN S
  ELSE eraseAll([S EXCEPT !.improvedValues[c][Head(q)] = VCNull], c, Tail(q))

\* The block is recorded dead and its improvements stay.
KeepImprovements(S, c, b) == [S EXCEPT !.deadBlocks[c] = @ \cup {b}]

OverwriteDeadBlocks(S, c, b) ==
  eraseAll([S EXCEPT !.deadBlocks[c] = {b}], c, BlockInsts(b))

EraseFunctionImprovements(S, c, b) ==
  eraseAll([S EXCEPT !.deadBlocks[c] = @ \cup {b}], c, InstOrder)

\* The block is dead: it is recorded and its instructions' improvements go.
markDead(S, c, b) ==
  eraseAll([S EXCEPT !.deadBlocks[c] = @ \cup {b}], c, BlockInsts(b))

RECURSIVE createInlineAttempts(_, _, _)
createInlineAttempts(S, c, q) ==
  IF q = <<>> THEN S
  ELSE IF Inst[Head(q)].op = "call"
  THEN createInlineAttempts(getOrCreateInlineAttempt(S, c, Head(q)).st,
                            c, Tail(q))
  ELSE createInlineAttempts(S, c, Tail(q))

\* The block is certain: it is recorded and its calls get inline attempts.
markCertain(S, c, b) ==
  createInlineAttempts([S EXCEPT !.certainBlocks[c] = @ \cup {b}],
                       c, BlockInsts(b))

LeaveEdgeAlive(S, c, b, t, isDead) == checkEdge(S, c, b, t)

\* One round of the loop over the successors of a dead or certain block.
checkSuccessor(S, c, b, t, isDead) ==
  checkEdge(IF isDead THEN [S EXCEPT !.deadEdges[c] = @ \cup {<<b, t>>}]
            ELSE S, c, b, t)

RECURSIVE checkSuccessors(_, _, _, _, _)
checkSuccessors(S, c, b, q, isDead) ==
  IF q = <<>> THEN S
  ELSE checkSuccessors(checkSuccessor(S, c, b, Head(q), isDead),
                       c, b, Tail(q), isDead)

PHIsOf(b) == SelectSeq(BlockInsts(b), LAMBDA v : Inst[v].op = "phi")

checkBlock(S, c, b) ==
  IF ~shouldCheckBlock(S, c, b) THEN S
  ELSE LET isDead    == computeIsDead(S, c, b)
           isCertain == resolveCertain(isDead, computeIsCertain(S, c, b))
           S1 == IF isDead THEN markDead(S, c, b) ELSE S
           S2 == IF isCertain THEN markCertain(S1, c, b) ELSE S1
           S3 == IF isDead \/ isCertain
                 THEN checkSuccessors(S2, c, b, succ(b), isDead) ELSE S2
       IN  IF ~isDead THEN queueTryEvaluateAll(S3, c, PHIsOf(b)) ELSE S3

-----------------------------------------------------------------------------
(* PHI nodes *)

shouldForwardValue(S, vc) ==
  \/ isConstant(vc)
  \/ /\ isPointerTy(vc)
     /\ isIdentifiedObject(getUltimateUnderlyingObject(S, vc))

isHeaderPHI(c, pn) ==
  isIteration(c) /\ Inst[pn].op = "phi" /\ Inst[pn].bb = getHeader("L")

SameIterationHeaderPHIValue(S, c, pn) ==
  IF iterationCount(c) = 0
  THEN getReplacement(S, parent(c),
                      getIncomingValueForBlock(pn, getLoopPreheader("L")))
  ELSE getReplacement(S, c, getIncomingValueForBlock(pn, getLoopLatch("L")))

\* PeelIteration::getLoopHeaderPHIValue, for a header PHI.
getLoopHeaderPHIValue(S, c, pn) ==
  IF iterationCount(c) = 0
  THEN getReplacement(S, parent(c),
                      getIncomingValueForBlock(pn, getLoopPreheader("L")))
  ELSE getReplacement(S, getIteration(iterationCount(c) - 1),
                      getIncomingValueForBlock(pn, getLoopLatch("L")))

FirstIterationExitValue(S, l, oldValue) ==
  IF getPeelAttempt(S, l)
  THEN getReplacement(S, getIteration(0), oldValue)
  ELSE VCNull

\* The value that leaves a child loop: read from the last iteration of its
\* peel attempt when that iteration is final, and otherwise not read at all.
readExitValue(S, l, oldValue) ==
  IF getPeelAttempt(S, l) /\ S.iterStatus[lastIteration(S)] = "Final"
  THEN getReplacement(S, lastIteration(S), oldValue)
  ELSE VCNull

\* Does the incoming value come from a descendant of the PHI's loop?
fromChildLoop(pn, oldValue) ==
  LET phiLoop  == getValueScope(Ref(pn))
      predLoop == getValueScope(oldValue)
  IN  \/ (phiLoop = "none" /\ predLoop # "none")
      \/ (phiLoop # "none" /\ ~LoopContains(predLoop, phiLoop))

\* The value in effect on one incoming edge; VCNull when it cannot be read.
predValueOf(S, c, pn, p) ==
  LET oldValue == getIncomingValueForBlock(pn, p)
  IN  IF fromChildLoop(pn, oldValue)
      THEN readExitValue(S, getValueScope(oldValue), oldValue)
      ELSE getReplacement(S, c, oldValue)

ScanDeadEdgesToo(S, c, pn, q, onlyValue) ==
  LET vals == {predValueOf(S, c, pn, q[j]) : j \in 1..Len(q)}
  IN  IF Cardinality(vals) = 1 THEN CHOOSE v \in vals : TRUE ELSE VCNull

RECURSIVE scanPreds(_, _, _, _, _)

\* One live predecessor in the scan: its value must agree with the others'.
scanLivePred(S, c, pn, q, onlyValue, predValue) ==
  IF predValue = VCNull THEN VCNull
  ELSE IF onlyValue = VCNull THEN scanPreds(S, c, pn, q, predValue)
  ELSE IF onlyValue # predValue THEN VCNull
  ELSE scanPreds(S, c, pn, q, onlyValue)

\* The scan of the predecessors in getPHINodeValue.
scanPreds(S, c, pn, q, onlyValue) ==
  IF q = <<>> THEN onlyValue
  ELSE IF edgeIsDead(S, c, Head(q), Inst[pn].bb)
  THEN scanPreds(S, c, pn, Tail(q), onlyValue)
  ELSE scanLivePred(S, c, pn, Tail(q), onlyValue,
                    predValueOf(S, c, pn, Head(q)))

\* The end of getPHINodeValue: only a forwardable value is returned.
forwardOnly(S, onlyValue) ==
  IF onlyValue # VCNull /\ shouldForwardValue(S, onlyValue)
  THEN onlyValue ELSE VCNull

getPHINodeValue(S, c, pn) ==
  forwardOnly(S, IF isHeaderPHI(c, pn)
                 THEN getLoopHeaderPHIValue(S, c, pn)
                 ELSE scanPreds(S, c, pn, pred(Inst[pn].bb), VCNull))

-----------------------------------------------------------------------------
(* Evaluation *)

EvaluateRegardless(S, c, v) == TRUE

shouldTryEvaluate(S, c, v) ==
  /\ getReplacement(S, c, Ref(v)) = getDefaultVC(c, Ref(v))
  /\ isInstruction(v) => ~blockIsDead(S, c, Inst[v].bb)

\* The edge to every target is recorded dead, the taken one too.
branchKillsEveryTarget(S, c, b, thisTarget, takenTarget) ==
  IF shouldCheckBlock(S, c, thisTarget)
  THEN checkEdge(setEdgeDead(S, c, b, thisTarget), c, b, thisTarget)
  ELSE S

\* One round of the loop over the targets of a branch with a known target.
branchTarget(S, c, b, thisTarget, takenTarget) ==
  IF shouldCheckBlock(S, c, thisTarget)
  THEN checkEdge(IF thisTarget # takenTarget
                 THEN setEdgeDead(S, c, b, thisTarget) ELSE S,
                 c, b, thisTarget)
  ELSE S

RECURSIVE branchTargets(_, _, _, _, _)
branchTargets(S, c, b, q, takenTarget) ==
  IF q = <<>> THEN S
  ELSE branchTargets(branchTarget(S, c, b, Head(q), takenTarget),
                     c, b, Tail(q), takenTarget)

evaluateBranch(S, c, v) ==
  LET ConstCondition ==
        IF Inst[v].ops = <<>> THEN VCNull
        ELSE getConstReplacement(S, c, Inst[v].ops[1])
      b == Inst[v].bb
  IN  IF ConstCondition = VCNull THEN S
      ELSE branchTargets(S, c, b, succ(b),
                         IF ConstCondition.num = 0 THEN succ(b)[2]
                         ELSE succ(b)[1])

tryConstFold(S, c, v) ==
  LET cs == [j \in 1..Len(Inst[v].ops) |->
               getConstReplacement(S, c, Inst[v].ops[j])]
  IN  IF \E j \in 1..Len(cs) : cs[j] = VCNull THEN VCNull
      ELSE ConstantFold(Inst[v].op, cs)

\* IntegrationAttempt::tryEvaluateResult
IAtryEvaluateResult(S, c, v) ==
  IF ~shouldTryEvaluate(S, c, v) \/ ~isInstruction(v) THEN Ret(S, VCNull)
  ELSE CASE Inst[v].op = "br" -> Ret(evaluateBranch(S, c, v), VCNull)
         [] Inst[v].op = "call" ->
              Ret(S, IF getInlineAttempt(S, c, v)
                     THEN tryGetReturnValue(S, "ia") ELSE VCNull)
         [] Inst[v].op = "phi" -> Ret(S, getPHINodeValue(S, c, v))
         [] OTHER -> Ret(S, tryConstFold(S, c, v))

\* InlineAttempt::tryEvaluateResult
tryEvaluateResult(S, c, v) ==
  IF ~isIteration(c) /\ isArgument(v)
  THEN Ret(S, IF c = "ia" THEN getImprovedCallArgument(S, c, v) ELSE VCNull)
  ELSE IAtryEvaluateResult(S, c, v)

-----------------------------------------------------------------------------
(* The dynamic users of a value *)

Visit(c, u) == [missed |-> FALSE, ctx |-> c, user |-> u]

UsersMissed == [missed |-> TRUE, ctx |-> "", user |-> ""]

\* PeelAttempt::visitVariant
PAvisitVariant(S, u) ==
  IF Inst[u].bb = getHeader("L") /\ Inst[u].op = "phi"
  THEN <<Visit(getIteration(0), u)>>
  ELSE [j \in 1..S.Iterations |-> Visit(getIteration(j - 1), u)]

\* What visitUsers does with one user of a value of context c.
visitUser(S, c, u) ==
  LET L   == getValueScope(Ref(u))
      MyL == getLoopContext(c)
  IN  IF L = MyL
      THEN IF isHeaderPHI(c, u)
           THEN IF getNextIteration(S, c) # ""
                THEN <<Visit(getNextIteration(S, c), u)>>
                ELSE <<UsersMissed>>
           ELSE <<Visit(c, u)>>
      ELSE IF MyL = "none" \/ LoopContains(MyL, L)
      THEN IF getPeelAttempt(S, L) THEN PAvisitVariant(S, u)
           ELSE <<UsersMissed>>
      ELSE IF S.iterStatus[c] = "Final" THEN <<Visit(parent(c), u)>>
      ELSE <<>>

RECURSIVE visitUsersOf(_, _, _)
visitUsersOf(S, c, q) ==
  IF q = <<>> THEN <<>>
  ELSE visitUser(S, c, Head(q)) \o visitUsersOf(S, c, Tail(q))

\* The visits and misses visitUsers makes for v, in order.
visitUsers(S, c, v) == visitUsersOf(S, c, Users(v))

queueTryEvaluateOwnCall(S, c) ==
  IF c = "ia" THEN queueTryEvaluate(S, parent(c), "a") ELSE S

\* Nothing is queued for the user.
ForgetUser(S, c, UserI, Used) == S

RECURSIVE investigateVisits(_, _, _)
RECURSIVE investigateUsers(_, _, _)
RECURSIVE queueTryEvaluateGeneric(_, _, _, _)

queueTryEvaluateGeneric(S, c, UserI, Used) ==
  CASE Inst[UserI].op = "call" ->
         LET R == getOrCreateInlineAttempt(S, c, UserI)
         IN  IF R.ret /\ Ref(Used) \in Range(Inst[UserI].ops)
             THEN queueTryEvaluate(R.st, "ia", "p") ELSE R.st
    [] Inst[UserI].op = "ret" -> queueTryEvaluateOwnCall(S, c)
    [] Inst[UserI].op = "load" -> queueCheckLoad(S, c, UserI)
    [] Inst[UserI].op \notin {"call", "ret", "load"} /\ Inst[UserI].pointer ->
         investigateUsers(queueTryEvaluate(S, c, UserI), c, UserI)
    [] OTHER -> queueTryEvaluate(S, c, UserI)

\* InvestigateVisitor, applied to the visits in order.
investigateVisits(S, q, V) ==
  IF q = <<>> THEN S
  ELSE LET e == Head(q)
       IN  IF ~e.missed /\ shouldTryEvaluate(S, e.ctx, e.user)
           THEN investigateVisits(
                  queueTryEvaluateGeneric(S, e.ctx, e.user, V), Tail(q), V)
           ELSE investigateVisits(S, Tail(q), V)

investigateUsers(S, c, V) == investigateVisits(S, visitUsers(S, c, V), V)

RequeueUnimproved(R, c, v) ==
  IF R.ret # VCNull /\ shouldForwardValue(R.st, R.ret)
  THEN investigateUsers(setReplacement(R.st, c, v, R.ret), c, v)
  ELSE queueTryEvaluate(R.st, c, v)

\* The body of tryEvaluate once tryEvaluateResult has answered R.
recordImproved(R, c, v) ==
  IF R.ret # VCNull /\ shouldForwardValue(R.st, R.ret)
  THEN investigateUsers(setReplacement(R.st, c, v, R.ret), c, v)
  ELSE R.st

tryEvaluate(S, c, v) == recordImproved(tryEvaluateResult(S, c, v), c, v)

checkLoad(S, c, v) ==
  IF ~shouldTryEvaluate(S, c, v) THEN S
  ELSE LET Result == tryForwardLoad(S, c, v)
       IN  IF Result # VCNull
           THEN investigateUsers(setReplacement(S, c, v, Result), c, v)
           ELSE S

-----------------------------------------------------------------------------
(* Dead values *)

\* A replacement by a constant, or by a value of a context that exists, is
\* available.
isAvailable(vc) == TRUE

localValueIsDead(S, c, v) ==
  \/ v \in S.deadValues[c]
  \/ isInstruction(v) /\ blockIsDead(S, c, Inst[v].bb)
  \/ LET VC == getReplacement(S, c, Ref(v))
     IN  VC # getDefaultVC(c, Ref(v)) /\ isAvailable(VC)

AnyUseKeepsAlive(S, e, V) == FALSE

\* DIVisitor::visit: does this use keep V alive?
useKeepsAlive(S, e, V) ==
  IF localValueIsDead(S, e.ctx, e.user) THEN FALSE
  ELSE IF Inst[e.user].op = "call"
  THEN IF ~getInlineAttempt(S, e.ctx, e.user) THEN TRUE
       ELSE \E j \in 1..Len(Inst[e.user].ops) :
              /\ Inst[e.user].ops[j] = Ref(V)
              /\ ~localValueIsDead(S, "ia", "p")
  ELSE TRUE

\* DIVisitor over the visits of V's users: maybeLive at the end.
maybeLive(S, c, V) ==
  LET q == visitUsers(S, c, V)
  IN  \E j \in 1..Len(q) : q[j].missed \/ useKeepsAlive(S, q[j], V)

getFunctionRoot(c) == IF c \in {"ia", "root2"} THEN c ELSE "root"

RECURSIVE valueIsDead(_, _, _)
valueIsDead(S, c, V) ==
  IF isInstruction(V) /\ Inst[V].op = "ret"
  THEN \* InlineAttempt::isOwnCallUnused
       IF parent(getFunctionRoot(c)) = "" THEN FALSE
       ELSE valueIsDead(S, parent(getFunctionRoot(c)), "a")
  ELSE ~maybeLive(S, c, V)

mayHaveSideEffects(v) == Inst[v].op = "call"

\* Every argument and instruction is a candidate.
DIEAnything(S, c, v) == isArgument(v) \/ isInstruction(v)

shouldDIE(S, c, v) ==
  IF isArgument(v) THEN TRUE
  ELSE IF ~isInstruction(v) THEN FALSE
  ELSE IF Inst[v].op = "call" THEN getInlineAttempt(S, c, v)
  ELSE Inst[v].op \notin {"vaarg", "alloca", "invoke", "store", "br",
                          "indirectbr", "switch", "unwind", "unreachable"}

queueDIE(S, c, v) ==
  IF shouldDIE(S, c, v) /\ ~localValueIsDead(S, c, v)
  THEN passQueueDIE(S, c, v) ELSE S

\* The context and value walkOperand hands to its callback for one operand.
walkOperand(S, c, o) ==
  LET MyL == getLoopContext(c)
      L   == getValueScope(o)
  IN  IF o.kind # "val" THEN <<>>
      ELSE IF L # MyL
      THEN IF MyL = "none" \/ LoopContains(MyL, L)
           THEN IF getPeelAttempt(S, L)
                   /\ S.iterStatus[lastIteration(S)] = "Final"
                THEN << <<lastIteration(S), o.name>> >>
                ELSE <<>>
           ELSE << <<parent(c), o.name>> >>
      ELSE << <<c, o.name>> >>

RECURSIVE walkOperandList(_, _, _)
walkOperandList(S, c, q) ==
  IF q = <<>> THEN <<>>
  ELSE walkOperand(S, c, Head(q)) \o walkOperandList(S, c, Tail(q))

\* PeelIteration::walkHeaderPHIOperands, for a header PHI.
walkHeaderPHIOperands(S, c, pn) ==
  IF iterationCount(c) = 0
  THEN << <<parent(c),
            getIncomingValueForBlock(pn, getLoopPreheader("L")).name>> >>
  ELSE << <<getIteration(iterationCount(c) - 1),
            getIncomingValueForBlock(pn, getLoopLatch("L")).name>> >>

\* The callbacks walkOperands makes for V: pairs of context and operand.
walkOperands(S, c, V) ==
  IF isArgument(V)
  THEN IF c = "ia" THEN << <<parent(c), Inst["a"].ops[1].name>> >> ELSE <<>>
  ELSE IF isHeaderPHI(c, V)
  THEN SelectSeq(walkHeaderPHIOperands(S, c, V), LAMBDA e : e[2] # "")
  ELSE walkOperandList(S, c, Inst[V].ops)

RECURSIVE queueDIEAll(_, _)
queueDIEAll(S, q) ==
  IF q = <<>> THEN S
  ELSE queueDIEAll(queueDIE(S, Head(q)[1], Head(q)[2]), Tail(q))

SkipOperands(S, c, V) == S

queueDIEOperands(S, c, V) == queueDIEAll(S, walkOperands(S, c, V))

\* The values of one context that queueAllLiveValuesMatching offers to
\* queueDIE: its live arguments and the instructions of its live blocks.
LocalLiveValuesMatching(S, c, onlyReturns) ==
  LET args == IF isIteration(c) \/ onlyReturns THEN <<>>
              ELSE SelectSeq(<<"p">>,
                     LAMBDA v : /\ ValueFunction(v) = CtxFunction(c)
                                /\ ~localValueIsDead(S, c, v))
      insts == SelectSeq(InstOrder,
                 LAMBDA v : /\ ValueFunction(v) = CtxFunction(c)
                            /\ ~blockIsDead(S, c, Inst[v].bb)
                            /\ getValueScope(Ref(v)) = getLoopContext(c)
                            /\ onlyReturns => Inst[v].op = "ret")
  IN  [j \in 1..(Len(args) + Len(insts)) |->
         <<c, IF j <= Len(args) THEN args[j] ELSE insts[j - Len(args)]>>]

\* The contexts below c in the tree, c first.
Subtree(S, c) ==
  IF c # "root" THEN <<c>>
  ELSE <<"root">> \o (IF S.inlineChildren THEN <<"ia">> ELSE <<>>)
                  \o [j \in 1..S.Iterations |-> getIteration(j - 1)]

RECURSIVE queueAllLiveValuesIn(_, _, _)
queueAllLiveValuesIn(S, q, onlyReturns) ==
  IF q = <<>> THEN S
  ELSE queueAllLiveValuesIn(
         queueDIEAll(S, LocalLiveValuesMatching(S, Head(q), onlyReturns)),
         Tail(q), onlyReturns)

queueAllLiveValuesMatching(S, c, onlyReturns) ==
  queueAllLiveValuesIn(S, Subtree(S, c), onlyReturns)

queueAllLiveValues(S, c) == queueAllLiveValuesMatching(S, c, FALSE)

queueAllReturnInsts(S, c) == queueAllLiveValuesMatching(S, c, TRUE)

KillWithoutAsking(S, c, V) ==
  queueDIEOperands([S EXCEPT !.deadValues[c] = @ \cup {V}], c, V)

\* The value is recorded dead and its operands are queued.
killValue(S, c, V) ==
  IF valueIsDead(S, c, V)
  THEN queueDIEOperands([S EXCEPT !.deadValues[c] = @ \cup {V}], c, V)
  ELSE S

\* The value is killed like one without side effects.
KillDespiteSideEffects(S, c, V) ==
  IF V \in S.deadValues[c] THEN S ELSE killValue(S, c, V)

tryKillValue(S, c, V) ==
  IF V \in S.deadValues[c] THEN S
  ELSE IF isInstruction(V) /\ mayHaveSideEffects(V)
  THEN IF Inst[V].op = "call" /\ valueIsDead(S, c, V)
          /\ getInlineAttempt(S, c, V)
       THEN queueAllReturnInsts(S, "ia") ELSE S
  ELSE killValue(S, c, V)

-----------------------------------------------------------------------------
(* The pass: one work item per step *)

Commit(S, l) ==
  /\ deadBlocks' = S.deadBlocks
  /\ deadEdges' = S.deadEdges
  /\ certainBlocks' = S.certainBlocks
  /\ improvedValues' = S.improvedValues
  /\ deadValues' = S.deadValues
  /\ iterStatus' = S.iterStatus
  /\ Iterations' = S.Iterations
  /\ inlineChildren' = S.inlineChildren
  /\ checkBlockQ' = S.checkBlockQ
  /\ tryEvaluateQ' = S.tryEvaluateQ
  /\ checkLoadQ' = S.checkLoadQ
  /\ dieQ' = S.dieQ
  /\ last' = l
  /\ UNCHANGED <<memory, chase, query, attempts, walker>>

Item(o, c, v) == [op |-> o, ctx |-> c, val |-> v]

MainLoads == {v \in Loads : ValueFunction(v) = "main"}

OracleAnswers(v) ==
  CASE v = "c" -> {VCNull, const_vc(0), const_vc(1)}
    [] v = "n" -> {VCNull} \cup {const_vc(j) : j \in 0..MaxTrip}
    [] v = "k" -> {VCNull, const_vc(1)}
    [] v = "b" -> {VCNull, const_vc(1), const_vc(2)}
    [] OTHER -> {VCNull}

\* The oracle answers for the loads of main only; every other load is
\* unresolved.
MainOracle(m) == [v \in Loads |-> IF v \in MainLoads THEN m[v] ELSE VCNull]

Oracles ==
  {MainOracle(m) : m \in {m \in [MainLoads -> {VCNull} \cup {const_vc(j) : j \in 0..MaxTrip}] :
                             \A v \in MainLoads : m[v] \in OracleAnswers(v)}}

Init ==
  /\ memory \in Oracles
  /\ deadBlocks = [c \in Ctx |-> {}]
  /\ deadEdges = [c \in Ctx |-> {}]
  /\ certainBlocks = [c \in Ctx |-> {}]
  /\ improvedValues = [c \in Ctx |-> [v \in Values |-> VCNull]]
  /\ deadValues = [c \in Ctx |-> {}]
  /\ iterStatus = [c \in IterCtx |-> "Unknown"]
  /\ Iterations = 0
  /\ inlineChildren = FALSE
  /\ checkBlockQ = {<<"root", "entry">>}
  /\ tryEvaluateQ = {}
  /\ checkLoadQ = {<<"root", v>> : v \in MainLoads}
  /\ dieQ = {}
  /\ dieStarted = FALSE
  /\ last = Item("init", "", "")
  /\ chase = Idle /\ query = Idle /\ attempts = Idle /\ walker = Idle

\* The driver serves each queue in a fixed order: contexts in the order of
\* their creation, then blocks and values in program order.  Which queue it
\* serves next is free.
CtxOrder == <<"root", "ia">> \o IterNames \o <<"root2">>

BlockOrder ==
  <<"entry", "A", "H", "T", "E", "B", "M", "gentry", "uentry", "VH", "VB",
    "VT", "Q", "WH", "WA", "WB", "R">>

NameOrder == BlockOrder \o InstOrder \o <<"p">>

IndexOf(q, e) == CHOOSE j \in 1..Len(q) : q[j] = e

rank(w) == IndexOf(CtxOrder, w[1]) * Len(NameOrder) + IndexOf(NameOrder, w[2])

nextItem(Q) == CHOOSE w \in Q : \A u \in Q : rank(w) <= rank(u)

CheckBlock ==
  /\ checkBlockQ # {}
  /\ LET w == nextItem(checkBlockQ) IN
       Commit(checkBlock([State EXCEPT !.checkBlockQ = @ \ {w}], w[1], w[2]),
              Item("checkBlock", w[1], w[2]))
  /\ UNCHANGED dieStarted

TryEvaluate ==
  /\ tryEvaluateQ # {}
  /\ LET w == nextItem(tryEvaluateQ) IN
       Commit(tryEvaluate([State EXCEPT !.tryEvaluateQ = @ \ {w}], w[1], w[2]),
              Item("tryEvaluate", w[1], w[2]))
  /\ UNCHANGED dieStarted

CheckLoad ==
  /\ checkLoadQ # {}
  /\ LET w == nextItem(checkLoadQ) IN
       Commit(checkLoad([State EXCEPT !.checkLoadQ = @ \ {w}], w[1], w[2]),
              Item("checkLoad", w[1], w[2]))
  /\ UNCHANGED dieStarted

MainQueuesEmpty == checkBlockQ = {} /\ tryEvaluateQ = {} /\ checkLoadQ = {}

\* Once the main queues have drained the driver queues every live value of
\* the tree for dead-value elimination.
QueueAllLiveValues ==
  /\ MainQueuesEmpty
  /\ ~dieStarted
  /\ dieStarted' = TRUE
  /\ Commit(queueAllLiveValues(State, "root"),
            Item("queueAllLiveValues", "root", ""))

TryKillValue ==
  /\ dieQ # {}
  /\ LET w == nextItem(dieQ) IN
       Commit(tryKillValue([State EXCEPT !.dieQ = @ \ {w}], w[1], w[2]),
              Item("tryKillValue", w[1], w[2]))
  /\ UNCHANGED dieStarted

Next == CheckBlock \/ TryEvaluate \/ CheckLoad \/ QueueAllLiveValues
          \/ TryKillValue

Spec == Init /\ [][Next]_vars

-----------------------------------------------------------------------------
(* Monotonicity of the recorded facts *)

\* C1: in every context the dead blocks, dead edges, certain blocks and dead
\* values only grow from one work item to the next, and no block moves from
\* dead to certain or from certain to dead.
FactsOnlyGrow ==
  [][\A c \in Ctx :
       /\ deadBlocks[c] \subseteq deadBlocks'[c]
       /\ deadEdges[c] \subseteq deadEdges'[c]
       /\ certainBlocks[c] \subseteq certainBlocks'[c]
       /\ deadValues[c] \subseteq deadValues'[c]
       /\ deadBlocks[c] \cap certainBlocks'[c] = {}
       /\ certainBlocks[c] \cap deadBlocks'[c] = {}]_vars

\* A context holds all four kinds of fact and work items have run since.
FactsOnlyGrowWitness ==
  \E c \in Ctx :
    /\ Cardinality(deadBlocks[c]) >= 1
    /\ Cardinality(certainBlocks[c]) >= 2
    /\ deadEdges[c] # {}
    /\ deadValues[c] # {}
    /\ last.op = "tryKillValue"

\* C2 as stated: an improvement, once recorded, is never erased and never
\* replaced by a different value.
ImprovementsNeverErased ==
  [][\A c \in Ctx : \A v \in Values :
       improvedValues[c][v] # VCNull =>
         improvedValues'[c][v] = improvedValues[c][v]]_vars

\* C2 amended: an improvement is never replaced by a different value, and it
\* is erased only by the checkBlock step that records its block dead.
ImprovementsKeptUntilBlockDies ==
  [][\A c \in Ctx : \A v \in Values :
       improvedValues[c][v] # VCNull =>
         \/ improvedValues'[c][v] = improvedValues[c][v]
         \/ /\ improvedValues'[c][v] = VCNull
            /\ isInstruction(v)
            /\ last' = Item("checkBlock", c, Inst[v].bb)
            /\ Inst[v].bb \in deadBlocks'[c] \ deadBlocks[c]]_vars

\* The load b was improved and checkBlock has since found its block dead,
\* while improvements of live blocks are still in place.
ImprovementsKeptWitness ==
  /\ last = Item("checkBlock", "root", "B")
  /\ "B" \in deadBlocks["root"]
  /\ memory["b"] # VCNull
  /\ improvedValues["root"]["b"] = VCNull
  /\ improvedValues["root"]["c"] # VCNull
  /\ <<"root", "b">> \notin checkLoadQ

\* C3: every outgoing edge of a block recorded dead is recorded dead.
DeadBlockEdgesDead ==
  \A c \in Ctx : \A b \in deadBlocks[c] :
    \A j \in 1..Len(succ(b)) : <<b, succ(b)[j]>> \in deadEdges[c]

\* A block with a successor is recorded dead.
DeadBlockEdgesDeadWitness ==
  \E c \in Ctx : \E b \in deadBlocks[c] : succ(b) # <<>>

\* C4: no block is recorded both certain and dead in one context.
CertainNotDead ==
  \A c \in Ctx : certainBlocks[c] \cap deadBlocks[c] = {}

\* A context holds a dead block next to certain blocks.
CertainNotDeadWitness ==
  \E c \in Ctx : deadBlocks[c] # {} /\ Cardinality(certainBlocks[c]) >= 3

-----------------------------------------------------------------------------
(* PHI evaluation *)

PHIs(c) == {v \in CtxValues(c) : isInstruction(v) /\ Inst[v].op = "phi"}

\* The predecessors whose edge into the PHI's block is live before the step.
LivePreds(c, pn) ==
  {p \in Range(pred(Inst[pn].bb)) : ~edgeIsDead(State, c, p, Inst[pn].bb)}

\* The values the live incoming edges carry before the step.
LiveValues(c, pn) == {predValueOf(State, c, pn, p) : p \in LivePreds(c, pn)}

\* C5: evaluating a PHI that is not a header PHI of the evaluating iteration
\* looks at the live incoming edges only: if they all carry one improved value
\* K the PHI is improved to K, if two of them carry different values the PHI
\* stays unimproved, and the result is never a value of a dead edge alone.
PHIMergesLiveEdges ==
  [][\A c \in Ctx : \A pn \in PHIs(c) :
       (/\ last' = Item("tryEvaluate", c, pn)
        /\ ~isHeaderPHI(c, pn)
        /\ shouldTryEvaluate(State, c, pn))
       => /\ \A K \in LiveValues(c, pn) :
               (LiveValues(c, pn) = {K} /\ K # VCNull
                  /\ shouldForwardValue(State, K))
               => improvedValues'[c][pn] = K
          /\ Cardinality(LiveValues(c, pn)) >= 2
               => improvedValues'[c][pn] = VCNull
          /\ improvedValues'[c][pn] \in LiveValues(c, pn) \cup {VCNull}]_vars

\* y = phi [1,E],[b,B] was evaluated to 1 although b forwards to 2: the edge
\* from B is dead.
PHIMergesLiveEdgesWitness ==
  /\ last = Item("tryEvaluate", "root", "y")
  /\ improvedValues["root"]["y"] = const_vc(1)
  /\ memory["b"] = const_vc(2)
  /\ <<"B", "M">> \in deadEdges["root"]
  /\ <<"E", "M">> \notin deadEdges["root"]

\* The only value a header PHI of iteration c may take.
HeaderSource(c, pn) ==
  IF iterationCount(c) = 0
  THEN getReplacement(State, parent(c),
                      getIncomingValueForBlock(pn, getLoopPreheader("L")))
  ELSE getReplacement(State, getIteration(iterationCount(c) - 1),
                      getIncomingValueForBlock(pn, getLoopLatch("L")))

\* C6: evaluating a header PHI in iteration n > 0 gives it the replacement of
\* its latch operand in iteration n - 1, and in iteration 0 the replacement
\* of its preheader operand in the parent; nothing else decides the result.
HeaderPHIReadsPreviousIteration ==
  [][\A c \in IterCtx : \A pn \in PHIs(c) :
       (/\ last' = Item("tryEvaluate", c, pn)
        /\ isHeaderPHI(c, pn)
        /\ shouldTryEvaluate(State, c, pn))
       => improvedValues'[c][pn] =
            IF shouldForwardValue(State, HeaderSource(c, pn))
            THEN HeaderSource(c, pn) ELSE VCNull]_vars

\* The induction variable was evaluated to 1 in the second iteration, from
\* inc of the first.
HeaderPHIWitness ==
  /\ last = Item("tryEvaluate", "it1", "i")
  /\ improvedValues["it1"]["i"] = const_vc(1)
  /\ improvedValues["it0"]["inc"] = const_vc(1)
  /\ improvedValues["it0"]["i"] = const_vc(0)

\* C7: a PHI with a live incoming value defined in a child loop gains an
\* improvement only while the loop has a peel attempt whose last iteration is
\* final, and the improvement is that value's replacement in that iteration.
ExitPHIReadsFinalIteration ==
  [][\A c \in Ctx : \A pn \in PHIs(c) :
       (improvedValues[c][pn] = VCNull /\ improvedValues'[c][pn] # VCNull)
       => \A p \in LivePreds(c, pn) :
            fromChildLoop(pn, getIncomingValueForBlock(pn, p))
            => (/\ Iterations > 0
                /\ iterStatus[getIteration(Iterations - 1)] = "Final"
                /\ improvedValues'[c][pn] =
                     improvedValues[getIteration(Iterations - 1)]
                                   [getIncomingValueForBlock(pn, p).name])]_vars

\* The exit PHI r was improved from the second, final iteration.
ExitPHIWitness ==
  /\ last = Item("tryEvaluate", "root", "r")
  /\ Iterations = 2
  /\ iterStatus["it1"] = "Final"
  /\ improvedValues["root"]["r"] # VCNull
  /\ improvedValues["root"]["r"] = improvedValues["it1"]["s"]
  /\ improvedValues["it0"]["s"] # improvedValues["it1"]["s"]

-----------------------------------------------------------------------------
(* Dead values *)

\* The contexts that exist in the current state.
ExistingCtx ==
  {"root"} \cup (IF inlineChildren THEN {"ia"} ELSE {})
           \cup {getIteration(j - 1) : j \in 1..Iterations}

\* u is locally dead in context c.
LocallyDead(c, u) ==
  \/ u \in deadValues[c]
  \/ isInstruction(u) /\ Inst[u].bb \in deadBlocks[c]
  \/ improvedValues[c][u] # VCNull

\* The use of V by u in context c is dead: u is locally dead, or u is a call
\* with an inline attempt in which the parameter V is passed as is locally dead.
UseDead(c, u, V) ==
  \/ LocallyDead(c, u)
  \/ /\ Inst[u].op = "call"
     /\ c = "root" /\ inlineChildren
     /\ LocallyDead("ia", "p")

\* Every dynamic use of V, a value of context c, is dead; a user in an
\* unpeeled child loop or in a next iteration that does not exist counts as
\* live.  exitAlways says whether an exit PHI counts as a use from an
\* iteration that is not final.
AllUsesDead(c, V, exitAlways) ==
  \A u \in Range(Users(V)) :
    LET headerPHI == Inst[u].op = "phi" /\ Inst[u].bb = getHeader("L")
    IN  IF getLoopFor(Inst[u].bb) = getLoopContext(c)
        THEN IF isIteration(c) /\ headerPHI
             THEN /\ iterationCount(c) + 1 < Iterations
                  /\ UseDead(getIteration(iterationCount(c) + 1), u, V)
             ELSE UseDead(c, u, V)
        ELSE IF ~isIteration(c)
        THEN /\ Iterations > 0
             /\ \A j \in 1..Iterations :
                  (headerPHI => j = 1) => UseDead(getIteration(j - 1), u, V)
        ELSE (exitAlways \/ iterStatus[c] = "Final")
               => UseDead(parent(c), u, V)

OperandInstances(c, V) ==
  IF isArgument(V)
  THEN IF c = "ia" THEN {<<"root", Inst["a"].ops[1].name>>} ELSE {}
  ELSE IF isHeaderPHI(c, V)
  THEN LET o == IF iterationCount(c) = 0
                THEN getIncomingValueForBlock(V, getLoopPreheader("L"))
                ELSE getIncomingValueForBlock(V, getLoopLatch("L"))
       IN  IF o.kind # "val" THEN {}
           ELSE IF iterationCount(c) = 0 THEN {<<parent(c), o.name>>}
           ELSE {<<getIteration(iterationCount(c) - 1), o.name>>}
  ELSE UNION {
         LET o == Inst[V].ops[j]
         IN  IF o.kind # "val" THEN {}
             ELSE IF getValueScope(o) = getLoopContext(c) THEN {<<c, o.name>>}
             ELSE IF isIteration(c) THEN {<<parent(c), o.name>>}
             ELSE IF Iterations > 0
                     /\ iterStatus[getIteration(Iterations - 1)] = "Final"
             THEN {<<getIteration(Iterations - 1), o.name>>}
             ELSE {} : j \in 1..Len(Inst[V].ops)}

\* The operand instance is a candidate for dead-value elimination and is not
\* locally dead yet.
StillToKill(w) ==
  /\ ~LocallyDead(w[1], w[2])
  /\ \/ isArgument(w[2])
     \/ /\ isInstruction(w[2])
        /\ Inst[w[2]].op \notin {"alloca", "store", "br"}
        /\ Inst[w[2]].op = "call" => (w[1] = "root" /\ inlineChildren)

\* tryKillValue is about to act on <<c, V>>, a value without side effects
\* that is not recorded dead yet.
KillStep(c, V) ==
  /\ last' = Item("tryKillValue", c, V)
  /\ V \notin deadValues[c]
  /\ isInstruction(V) => Inst[V].op # "call"

\* C9 as stated: tryKillValue records a value without side effects dead
\* exactly if all its dynamic uses are dead, and then every operand is queued
\* for its own dead-value check in the context that owns it.
KillIffUsesDeadQueuesOperands ==
  [][\A c \in Ctx : \A V \in CtxValues(c) :
       KillStep(c, V) =>
         /\ V \in deadValues'[c] <=> AllUsesDead(c, V, TRUE)
         /\ V \in deadValues'[c] => OperandInstances(c, V) \subseteq dieQ']_vars

\* C9 amended: tryKillValue records a value without side effects dead exactly
\* if valueIsDead holds of it (all dynamic uses found are dead; for a return
\* instruction, the uses of the call of its inline attempt), and then queues
\* those of its operands, in their owning contexts, that are candidates for
\* dead-value elimination and not locally dead already; otherwise it changes
\* nothing.
KillIffValueDeadQueuesLiveOperands ==
  [][\A c \in Ctx : \A V \in CtxValues(c) :
       KillStep(c, V) =>
         /\ V \in deadValues'[c] <=>
              IF isInstruction(V) /\ Inst[V].op = "ret"
              THEN c = "ia" /\ AllUsesDead("root", "a", FALSE)
              ELSE AllUsesDead(c, V, FALSE)
         /\ deadValues' = [deadValues EXCEPT ![c] =
                             IF V \in deadValues'[c] THEN @ \cup {V} ELSE @]
         /\ dieQ' = (dieQ \ {<<c, V>>}) \cup
                      IF V \in deadValues'[c]
                      THEN {w \in OperandInstances(c, V) : StillToKill(w)}
                      ELSE {}]_vars

\* tryKillValue has just recorded d dead in the inline attempt and queued its
\* operand p there; before, the return that uses d had been recorded dead.
KillWitness ==
  /\ last = Item("tryKillValue", "ia", "d")
  /\ "d" \in deadValues["ia"]
  /\ "ret_g" \in deadValues["ia"]
  /\ <<"ia", "p">> \in dieQ
  /\ "p" \notin deadValues["ia"]

-----------------------------------------------------------------------------
(* Block liveness at the fixpoint *)

\* No work item is pending.
Drained == MainQueuesEmpty /\ dieQ = {}

\* The blocks a context decides: those of its function, and for a loop
\* iteration those of its loop (the exit blocks belong to the parent).
ContextBlocks(c) ==
  {b \in Blocks : /\ BlockFunction(b) = CtxFunction(c)
                  /\ isIteration(c) => LoopContainsBlock("L", b)}

\* C10: when the worklist has drained, in every context a block other than
\* the entry block is recorded dead exactly if each of its incoming edges is
\* recorded dead there, and the entry block is not recorded dead.
DeadIffAllIncomingDead ==
  Drained =>
    \A c \in ExistingCtx : \A b \in ContextBlocks(c) :
      IF b = getEntryBlock(c) THEN b \notin deadBlocks[c]
      ELSE b \in deadBlocks[c] <=>
             \A j \in 1..Len(pred(b)) : <<pred(b)[j], b>> \in deadEdges[c]

\* At the fixpoint B is dead in the root, M has one dead and one live
\* incoming edge and is not dead, and the latch is dead in a loop iteration.
DeadIffAllIncomingDeadWitness ==
  /\ Drained
  /\ "B" \in deadBlocks["root"]
  /\ <<"B", "M">> \in deadEdges["root"]
  /\ <<"E", "M">> \notin deadEdges["root"]
  /\ "M" \notin deadBlocks["root"]
  /\ \E c \in ExistingCtx : isIteration(c) /\ "T" \in deadBlocks[c]

\* C11: when the worklist has drained, in every context a block other than
\* the entry block is recorded certain exactly if it is not recorded dead and
\* every predecessor with a live edge into it is recorded certain and has no
\* other live outgoing edge; the entry block is recorded certain.
CertainIffLivePredsCertain ==
  Drained =>
    \A c \in ExistingCtx : \A b \in ContextBlocks(c) :
      IF b = getEntryBlock(c) THEN b \in certainBlocks[c]
      ELSE b \in certainBlocks[c] <=>
             /\ b \notin deadBlocks[c]
             /\ \A p \in Range(pred(b)) :
                  <<p, b>> \notin deadEdges[c] =>
                    /\ p \in certainBlocks[c]
                    /\ \A t \in Range(succ(p)) :
                         t = b \/ <<p, t>> \in deadEdges[c]

\* At the fixpoint A is certain in the root because the branch to B is dead,
\* M is neither certain nor dead, and the latch is certain in an iteration.
CertainIffLivePredsCertainWitness ==
  /\ Drained
  /\ "A" \in certainBlocks["root"]
  /\ <<"entry", "B">> \in deadEdges["root"]
  /\ "M" \notin certainBlocks["root"] \cup deadBlocks["root"]
  /\ \E c \in ExistingCtx : isIteration(c) /\ "T" \in certainBlocks[c]

-----------------------------------------------------------------------------
(* Termination of the worklist *)

\* Any initial work: the facts are empty and the queues hold any of a few
\* work items of the root.
\* The oracle's answers the runs from arbitrary work are built under: every
\* answer for the guard and for the loop bound.
WorkOracles ==
  {m \in Oracles :
     /\ m["k"] = const_vc(1)
     /\ m["b"] \in {VCNull, const_vc(1)}}

AnyWorkInit ==
  /\ memory \in WorkOracles
  /\ deadBlocks = [c \in Ctx |-> {}]
  /\ deadEdges = [c \in Ctx |-> {}]
  /\ certainBlocks = [c \in Ctx |-> {}]
  /\ improvedValues = [c \in Ctx |-> [v \in Values |-> VCNull]]
  /\ deadValues = [c \in Ctx |-> {}]
  /\ iterStatus = [c \in IterCtx |-> "Unknown"]
  /\ Iterations = 0
  /\ inlineChildren = FALSE
  /\ checkBlockQ \in SUBSET {<<"root", "entry">>, <<"root", "M">>}
  /\ tryEvaluateQ \in SUBSET {<<"root", "br_e">>, <<"root", "y">>}
  /\ checkLoadQ \in {{}, {<<"root", v>> : v \in MainLoads}}
  /\ dieQ = {}
  /\ dieStarted = FALSE
  /\ last = Item("init", "", "")
  /\ chase = Idle /\ query = Idle /\ attempts = Idle /\ walker = Idle

WorkSpec == AnyWorkInit /\ [][Next]_vars

\* The facts recorded so far.
Facts ==
  <<deadBlocks, deadEdges, certainBlocks, improvedValues, deadValues,
    iterStatus, Iterations, inlineChildren>>

\* The step was one of the four work items.
WorkItemStep ==
  last'.op \in {"checkBlock", "tryEvaluate", "checkLoad", "tryKillValue"}

\* C12 as stated: a work item that records no new fact queues nothing.
RequeuesOnlyOnNewFact ==
  [][(WorkItemStep /\ Facts' = Facts) =>
       /\ checkBlockQ' \subseteq checkBlockQ
       /\ tryEvaluateQ' \subseteq tryEvaluateQ
       /\ checkLoadQ' \subseteq checkLoadQ
       /\ dieQ' \subseteq dieQ]_vars

\* The weight of pending work: what a work item may queue without recording
\* a fact weighs less than the item itself (a branch queues block checks, a
\* block check queues PHIs, the dead-value check of a call queues returns).
WorkWeight(kind, w) ==
  CASE kind = "checkBlock" -> 5
    [] kind = "tryEvaluate" /\ isInstruction(w[2]) /\ Inst[w[2]].op = "br" -> 30
    [] kind = "tryKillValue" /\ isInstruction(w[2]) /\ Inst[w[2]].op = "call"
         -> 3
    [] OTHER -> 1

RECURSIVE SumWeights(_, _)
SumWeights(kind, Q) ==
  IF Q = {} THEN 0
  ELSE LET w == CHOOSE w \in Q : TRUE
       IN  WorkWeight(kind, w) + SumWeights(kind, Q \ {w})

\* A dead block counts for more facts than the improvements its recording
\* erases.
DeadBlockWeight == 1 + Len(InstOrder)

\* No state records more facts than this.
MaxFacts ==
  Cardinality(Ctx) * (DeadBlockWeight * Cardinality(Blocks) + Cardinality(Edges)
                        + Cardinality(Blocks) + 2 * Cardinality(Values) + 1)
    + MaxIter + 2

\* A fact weighs more than all the work that can be pending at once.
FactWeight ==
  1 + Cardinality(Ctx) * (5 * Cardinality(Blocks) + 34 * Cardinality(Values))

PendingWeight(cbQ, teQ, clQ, dQ) ==
  SumWeights("checkBlock", cbQ) + SumWeights("tryEvaluate", teQ)
    + SumWeights("checkLoad", clQ) + SumWeights("tryKillValue", dQ)

\* The number of facts recorded in one context.
FactsOf(c) ==
  DeadBlockWeight * Cardinality(deadBlocks[c])
    + Cardinality(deadEdges[c]) + Cardinality(certainBlocks[c])
    + Cardinality(deadValues[c])
    + Cardinality({v \in Values : improvedValues[c][v] # VCNull})
    + (IF isIteration(c) /\ iterStatus[c] = "Final" THEN 1 ELSE 0)

RECURSIVE SumFacts(_)
SumFacts(C) ==
  IF C = {} THEN 0
  ELSE LET c == CHOOSE c \in C : TRUE IN FactsOf(c) + SumFacts(C \ {c})

\* The number of facts recorded so far in the contexts that exist, the
\* contexts created among them.
FactCount ==
  SumFacts(ExistingCtx) + Iterations + (IF inlineChildren THEN 1 ELSE 0)
    + (IF dieStarted THEN 1 ELSE 0)

\* What is left to do: the facts that can still be recorded, each weighing
\* more than all the work that can be pending, and the pending work.
Measure ==
  (MaxFacts - FactCount) * FactWeight
    + PendingWeight(checkBlockQ, tryEvaluateQ, checkLoadQ, dieQ)

\* C12 amended: from any initial work the run is finite and ends with every
\* queue empty: every step either records a new fact, of which there are
\* finitely many, or leaves less pending work than it found.  A work item
\* that records no fact may still queue the PHIs of the block it checked,
\* the targets of the branch it evaluated or the returns of the call it
\* found unused; such work weighs less than the item that queued it.
WorklistTerminates ==
  /\ [](Measure >= 0)
  /\ [][Measure' < Measure]_vars
  /\ [][(WorkItemStep /\ Facts' = Facts) =>
          PendingWeight(checkBlockQ', tryEvaluateQ', checkLoadQ', dieQ')
            < PendingWeight(checkBlockQ, tryEvaluateQ, checkLoadQ, dieQ)]_vars

\* Every queue is empty again after a run in which a block check that
\* recorded nothing had queued the PHIs of M, and the loop was peeled.
WorklistTerminatesWitness ==
  /\ Drained /\ dieStarted
  /\ Iterations > 0
  /\ inlineChildren
  /\ "M" \notin certainBlocks["root"] \cup deadBlocks["root"]
  /\ improvedValues["root"]["y"] # VCNull

-----------------------------------------------------------------------------
(* Independence of the processing order *)

\* How many of the first pending items of a queue the driver may choose from.
MaxChoice == 2

\* The first items of a queue in the driver's order.  The driver serves
\* block checks before evaluations before loads, and within a queue any of
\* its first items.
firstItems(Q) ==
  {w \in Q : Cardinality({u \in Q : rank(u) < rank(w)}) < MaxChoice}

CheckBlockAny ==
  \E w \in firstItems(checkBlockQ) :
    /\ Commit(checkBlock([State EXCEPT !.checkBlockQ = @ \ {w}], w[1], w[2]),
              Item("checkBlock", w[1], w[2]))
    /\ UNCHANGED dieStarted

TryEvaluateAny ==
  \E w \in firstItems(tryEvaluateQ) :
    /\ checkBlockQ = {}
    /\ Commit(tryEvaluate([State EXCEPT !.tryEvaluateQ = @ \ {w}], w[1], w[2]),
              Item("tryEvaluate", w[1], w[2]))
    /\ UNCHANGED dieStarted

CheckLoadAny ==
  \E w \in firstItems(checkLoadQ) :
    /\ checkBlockQ = {} /\ tryEvaluateQ = {}
    /\ Commit(checkLoad([State EXCEPT !.checkLoadQ = @ \ {w}], w[1], w[2]),
              Item("checkLoad", w[1], w[2]))
    /\ UNCHANGED dieStarted

TryKillValueAny ==
  \E w \in firstItems(dieQ) :
    /\ Commit(tryKillValue([State EXCEPT !.dieQ = @ \ {w}], w[1], w[2]),
              Item("tryKillValue", w[1], w[2]))
    /\ UNCHANGED dieStarted

NextAny ==
  CheckBlockAny \/ TryEvaluateAny \/ CheckLoadAny \/ QueueAllLiveValues
    \/ TryKillValueAny

OrderSpec == Init /\ [][NextAny]_vars

\* The state after construction, as a record.
InitState ==
  [deadBlocks |-> [c \in Ctx |-> {}], deadEdges |-> [c \in Ctx |-> {}],
   certainBlocks |-> [c \in Ctx |-> {}],
   improvedValues |-> [c \in Ctx |-> [v \in Values |-> VCNull]],
   deadValues |-> [c \in Ctx |-> {}],
   iterStatus |-> [c \in IterCtx |-> "Unknown"],
   Iterations |-> 0, inlineChildren |-> FALSE,
   checkBlockQ |-> {<<"root", "entry">>}, tryEvaluateQ |-> {},
   checkLoadQ |-> {<<"root", v>> : v \in MainLoads}, dieQ |-> {}]

\* The run that always serves the first item: block checks before
\* evaluations before loads, then the dead-value checks.
RECURSIVE runQueue(_, _)
runQueue(S, started) ==
  IF S.checkBlockQ # {}
  THEN LET w == nextItem(S.checkBlockQ)
       IN  runQueue(checkBlock([S EXCEPT !.checkBlockQ = @ \ {w}], w[1], w[2]),
                    started)
  ELSE IF S.tryEvaluateQ # {}
  THEN LET w == nextItem(S.tryEvaluateQ)
       IN  runQueue(tryEvaluate([S EXCEPT !.tryEvaluateQ = @ \ {w}],
                                w[1], w[2]), started)
  ELSE IF S.checkLoadQ # {}
  THEN LET w == nextItem(S.checkLoadQ)
       IN  runQueue(checkLoad([S EXCEPT !.checkLoadQ = @ \ {w}], w[1], w[2]),
                    started)
  ELSE IF ~started THEN runQueue(queueAllLiveValues(S, "root"), TRUE)
  ELSE IF S.dieQ # {}
  THEN LET w == nextItem(S.dieQ)
       IN  runQueue(tryKillValue([S EXCEPT !.dieQ = @ \ {w}], w[1], w[2]),
                    started)
  ELSE S

\* The facts the claim names, of a state given as a record.
ResultOf(S) ==
  <<S.deadBlocks, S.deadEdges, S.certainBlocks, S.improvedValues,
    S.deadValues>>

-----------------------------------------------------------------------------
(* Evaluating a value that is settled already *)

\* The value has a replacement, or it is an instruction of a dead block.
alreadyImproved(c, v) == improvedValues[c][v] # VCNull

inDeadBlock(c, v) == isInstruction(v) /\ Inst[v].bb \in deadBlocks[c]

EvaluationStep ==
  /\ last' # last
  /\ last'.op \in {"tryEvaluate", "checkLoad"}

\* The step took its item off its queue and did nothing else.
OnlyDequeued ==
  /\ Facts' = Facts
  /\ checkBlockQ' = checkBlockQ
  /\ dieQ' = dieQ
  /\ tryEvaluateQ' = IF last'.op = "tryEvaluate"
                     THEN tryEvaluateQ \ {<<last'.ctx, last'.val>>}
                     ELSE tryEvaluateQ
  /\ checkLoadQ' = IF last'.op = "checkLoad"
                   THEN checkLoadQ \ {<<last'.ctx, last'.val>>}
                   ELSE checkLoadQ

-----------------------------------------------------------------------------
(* BasicAliasAnalysis: chasing a pointer to its underlying object *)

\* The integrator as constructed, before any work is queued.
IntegratorAtRest ==
  /\ memory = [v \in Loads |-> VCNull]
  /\ deadBlocks = [c \in Ctx |-> {}]
  /\ deadEdges = [c \in Ctx |-> {}]
  /\ certainBlocks = [c \in Ctx |-> {}]
  /\ improvedValues = [c \in Ctx |-> [v \in Values |-> VCNull]]
  /\ deadValues = [c \in Ctx |-> {}]
  /\ iterStatus = [c \in IterCtx |-> "Unknown"]
  /\ Iterations = 0
  /\ inlineChildren = FALSE
  /\ checkBlockQ = {} /\ tryEvaluateQ = {} /\ checkLoadQ = {} /\ dieQ = {}
  /\ dieStarted = FALSE
  /\ last = Item("init", "", "")

\* The pointers of the function the analysis is asked about:
\*   obj = alloca            og  = gep obj, 0, 1      oz = gep obj, 0, 0
\*   obj2 = alloca (stored)  bc  = bitcast og         arg = argument
\*   gv  = global            ga  = alias of gv        gw = weak alias of gv
\*   ld  = load
\*   L:  ph  = phi [gph, obj]      gph = gep ph, 0, 1    ; a pointer that
\*       ph2 = phi [og, obj2]                            ; runs over a loop
\*   K:  pq  = phi [ph, obj]
\*   s3  = select c2, obj, obj2
\*   unreachable code:
\*       u1 = gep u2, 0, 1       u2 = bitcast u1
\*       s1 = select c1, s2, obj     s2 = select c1, s1, obj2
Pointer(o, b, z) ==
  [op |-> o, base |-> b, allZero |-> z, srcs |-> <<>>, at |-> ""]

\* A PHI of block at, or a select on condition at.
Merge(o, srcs, at) ==
  [op |-> o, base |-> "", allZero |-> FALSE, srcs |-> srcs, at |-> at]

Ptr ==
  [obj |-> Pointer("alloca", "", FALSE), og |-> Pointer("gep", "obj", FALSE),
   oz |-> Pointer("gep", "obj", TRUE), bc |-> Pointer("bitcast", "og", FALSE),
   obj2 |-> Pointer("alloca", "", FALSE),
   arg |-> Pointer("argument", "", FALSE),
   gv |-> Pointer("global", "", FALSE), ga |-> Pointer("alias", "gv", FALSE),
   gw |-> Pointer("weakalias", "gv", FALSE),
   ld |-> Pointer("load", "", FALSE),
   ph |-> Merge("phi", <<"gph", "obj">>, "L"),
   gph |-> Pointer("gep", "ph", FALSE),
   ph2 |-> Merge("phi", <<"og", "obj2">>, "L"),
   pq |-> Merge("phi", <<"ph", "obj">>, "K"),
   s3 |-> Merge("select", <<"obj", "obj2">>, "c2"),
   u1 |-> Pointer("gep", "u2", FALSE), u2 |-> Pointer("bitcast", "u1", FALSE),
   s1 |-> Merge("select", <<"s2", "obj">>, "c1"),
   s2 |-> Merge("select", <<"s1", "obj2">>, "c1")]

PtrNames == DOMAIN Ptr

MaxLookup == 1000

\* The improvements a context may hold for the pointers: none; a load
\* improved to a pointer into an alloca; a PHI improved to a load that is
\* improved to a global; and two maps in which the replacements lead back
\* to an earlier value.
Unimproved == [v \in PtrNames |-> VCNull]

ImprovementMaps ==
  {Unimproved,
   [Unimproved EXCEPT !["ld"] = make_vc("og", "root")],
   [Unimproved EXCEPT !["ph"] = make_vc("ld", "root"),
                      !["ld"] = make_vc("ga", "")],
   [Unimproved EXCEPT !["ph"] = make_vc("ld", "root"),
                      !["ld"] = make_vc("ph", "root")],
   [Unimproved EXCEPT !["ph"] = make_vc("gph", "root")]}

\* BasicAliasAnalysis::getReplacement: a value without a context is its own
\* replacement, otherwise the context answers.
ptrReplacement(m, vc) ==
  IF vc.ctx = "" THEN vc
  ELSE IF m[vc.name] = VCNull THEN vc ELSE m[vc.name]

\* A GEP with a non-zero index that is asked for by identity is not looked
\* through.
offsetGEP(v) == Ptr[v].op = "gep" /\ ~Ptr[v].allZero

looksThrough(v, idOnly) ==
  \/ Ptr[v].op = "gep" /\ ~(offsetGEP(v) /\ idOnly)
  \/ Ptr[v].op \in {"bitcast", "alias"}

StartChase(m, vc, idOnly) ==
  [pc |-> "getUnderlyingObject", improved |-> m, idOnly |-> idOnly,
   CurrentV |-> vc, V |-> vc.name, Count |-> 0, isOffset |-> FALSE,
   result |-> VCNull, seen |-> {}]

ChaseInit ==
  /\ IntegratorAtRest
  /\ query = Idle /\ attempts = Idle /\ walker = Idle
  /\ \E m \in ImprovementMaps, v \in PtrNames, c \in {"root", ""},
        idOnly \in BOOLEAN :
       chase = StartChase(m, make_vc(v, c), idOnly)

\* One round of the loop of getUnderlyingObject that looks through a GEP, a
\* cast or an alias.
LookThrough ==
  /\ chase.pc = "getUnderlyingObject"
  /\ chase.Count < MaxLookup
  /\ looksThrough(chase.V, chase.idOnly)
  /\ chase' = [chase EXCEPT !.V = Ptr[chase.V].base,
                            !.Count = @ + 1,
                            !.isOffset = @ \/ offsetGEP(chase.V)]
  /\ UNCHANGED <<integratorVars, query, attempts, walker>>

\* getUnderlyingObject returns: the lookup bound is exhausted, or the value
\* is not looked through.
ReturnObject ==
  /\ chase.pc = "getUnderlyingObject"
  /\ chase.Count >= MaxLookup \/ ~looksThrough(chase.V, chase.idOnly)
  /\ chase' = [chase EXCEPT !.pc = "getReplacement",
                            !.isOffset = @ \/ (chase.Count < MaxLookup
                                                 /\ offsetGEP(chase.V))]
  /\ UNCHANGED <<integratorVars, query, attempts, walker>>

\* The body of the loop of getUltimateUnderlyingObject once the underlying
\* object O is known.  A round that starts from a value an earlier round
\* started from repeats that round; the chase is not followed further.
FollowReplacement ==
  /\ chase.pc = "getReplacement"
  /\ chase.CurrentV \notin chase.seen
  /\ LET O    == make_vc(chase.V, chase.CurrentV.ctx)
         NewV == ptrReplacement(chase.improved, O)
     IN  chase' = IF NewV = O
                  THEN [chase EXCEPT !.pc = "done", !.result = NewV]
                  ELSE [chase EXCEPT !.pc = "getUnderlyingObject",
                                     !.CurrentV = NewV, !.V = NewV.name,
                                     !.Count = 0,
                                     !.seen = @ \cup {chase.CurrentV}]
  /\ UNCHANGED <<integratorVars, query, attempts, walker>>

ChaseNext == LookThrough \/ ReturnObject \/ FollowReplacement

ChaseSpec == ChaseInit /\ [][ChaseNext]_vars

\* C17: the chase to the ultimate underlying object terminates: the walk
\* through GEPs, casts and aliases makes at most MaxLookup rounds, and the
\* loop over the improvements never starts a round from a value it started
\* an earlier round from (the loop is deterministic, so a repeated start
\* repeats for ever).
UltimateChaseTerminates ==
  /\ chase.Count <= MaxLookup
  /\ ~(chase.pc = "getUnderlyingObject" /\ chase.Count = 0
         /\ chase.CurrentV \in chase.seen)

-----------------------------------------------------------------------------
(* BasicAliasAnalysis: one alias query without a context *)

\* How deep the sub-queries of one query may nest before the model gives up.
MaxQueryDepth == 8

Sizes == {"0", "4", "unknown"}

UnknownSize == "unknown"

bytes(size) == IF size = "4" THEN 4 ELSE 0

\* The bytes a GEP with index 1 adds.
GEPBytes == bytes("4")

isGEP(v) == Ptr[v].op = "gep"
isPHI(v) == Ptr[v].op = "phi"
isSelect(v) == Ptr[v].op = "select"

\* A cursor of the walk through GEPs, casts and aliases.
Cursor(v) == [v |-> v, isOffset |-> FALSE, offs |-> 0]

stripOnce(x, idOnly) ==
  IF looksThrough(x.v, idOnly)
  THEN [v |-> Ptr[x.v].base, isOffset |-> x.isOffset \/ offsetGEP(x.v),
        offs |-> x.offs + IF offsetGEP(x.v) THEN GEPBytes ELSE 0]
  ELSE [x EXCEPT !.isOffset = @ \/ offsetGEP(x.v)]

\* n rounds of the loop of getUnderlyingObject; a value that is not looked
\* through ends the loop, so further rounds leave it as it is.
RECURSIVE stripRounds(_, _, _)
stripRounds(x, n, idOnly) ==
  IF n = 0 THEN x
  ELSE IF n % 2 = 1
  THEN CHOOSE r \in {stripOnce(y, idOnly) :
                       y \in {stripRounds(x, n - 1, idOnly)}} : TRUE
  ELSE CHOOSE r \in {stripRounds(y, n \div 2, idOnly) :
                       y \in {stripRounds(x, n \div 2, idOnly)}} : TRUE

\* Without a context every value is its own replacement, so the ultimate
\* underlying object is the underlying object.
underlyingObject == [v \in PtrNames |-> stripRounds(Cursor(v), MaxLookup, FALSE)]

getFirstOffset == [v \in PtrNames |-> stripRounds(Cursor(v), MaxLookup, TRUE).v]

\* DecomposeGEPExpression makes the same MaxLookup rounds and adds up the
\* offsets of the GEPs it looks through.
DecomposeGEPExpression == underlyingObject

isIdentifiedObject2(v) == Ptr[v].op \in {"alloca", "global"}

isEscapeSource(v) == Ptr[v].op \in {"load", "argument"}

isNonEscapingLocalObject(v) == v = "obj"

\* The rules of aliasCheck for two different underlying objects.
differentObjects(O1, O2) ==
  \/ isIdentifiedObject2(O1) /\ isIdentifiedObject2(O2)
  \/ Ptr[O1].op = "argument" /\ Ptr[O2].op = "alloca"
  \/ Ptr[O2].op = "argument" /\ Ptr[O1].op = "alloca"
  \/ isEscapeSource(O1) /\ isNonEscapingLocalObject(O2)
  \/ isEscapeSource(O2) /\ isNonEscapingLocalObject(O1)

\* What a (sub-)query answers: its result, the visited set it leaves, and
\* the entries into aliasGEP, aliasSelect and aliasPHI it made, in order.
Answer(r, Vis, log) == [res |-> r, Visited |-> Vis, log |-> log]

Entry(fn, v, seenBefore) == [fn |-> fn, node |-> v, revisit |-> seenBefore]

Logged(e, A) == [A EXCEPT !.log = <<e>> \o @]

After(A, B) == [B EXCEPT !.log = A.log \o @]

Result(A, r) == [A EXCEPT !.res = r]

NeverVisited(Vis, v) == FALSE

\* Visited.insert fails: the node was entered before in this query.
alreadyVisited(Vis, v) == v \in Vis

\* The end of aliasGEP, once the offset between the two pointers is known.
offsetAnswer(offs, V1Size, V2Size) ==
  IF offs = 0 THEN "MustAlias"
  ELSE IF \/ V2Size # UnknownSize /\ offs >= bytes(V2Size)
          \/ V1Size # UnknownSize /\ offs <= 0 - bytes(V1Size)
  THEN "NoAlias" ELSE "MayAlias"

RECURSIVE aliasCheck(_, _, _, _, _, _)
RECURSIVE aliasGEP(_, _, _, _, _, _, _, _)
RECURSIVE aliasSelect(_, _, _, _, _, _)
RECURSIVE aliasPHI(_, _, _, _, _, _)
RECURSIVE samePHIEdges(_, _, _, _, _, _, _, _)
RECURSIVE otherPHISources(_, _, _, _, _, _, _)

aliasGEP(V1, V1Size, V2, V2Size, UnderlyingV1, UnderlyingV2, Vis, d) ==
  IF alreadyVisited(Vis, V1)
  THEN Answer("MayAlias", Vis, <<Entry("aliasGEP", V1, TRUE)>>)
  ELSE
    LET e  == Entry("aliasGEP", V1, FALSE)
        D1 == DecomposeGEPExpression[V1]
        D2 == DecomposeGEPExpression[V2]
    IN  IF isGEP(V2)
        THEN LET BaseAlias == aliasCheck(UnderlyingV1, UnknownSize,
                                         UnderlyingV2, UnknownSize,
                                         Vis \cup {V1}, d - 1)
             IN  IF BaseAlias.res # "MustAlias" THEN Logged(e, BaseAlias)
                 ELSE IF D1.v # UnderlyingV1 \/ D2.v # UnderlyingV2
                 THEN Logged(e, Result(BaseAlias, "MayAlias"))
                 ELSE Logged(e, Result(BaseAlias,
                        offsetAnswer(D1.offs - D2.offs, V1Size, V2Size)))
        ELSE IF V1Size = UnknownSize /\ V2Size = UnknownSize
        THEN Answer("MayAlias", Vis \cup {V1}, <<e>>)
        ELSE LET R == aliasCheck(UnderlyingV1, UnknownSize, V2, V2Size,
                                 Vis \cup {V1}, d - 1)
             IN  IF R.res # "MustAlias" THEN Logged(e, R)
                 ELSE IF D1.v # UnderlyingV1
                 THEN Logged(e, Result(R, "MayAlias"))
                 ELSE Logged(e, Result(R,
                        offsetAnswer(D1.offs, V1Size, V2Size)))

aliasSelect(SI, SISize, V2, V2Size, Vis, d) ==
  IF alreadyVisited(Vis, SI)
  THEN Answer("MayAlias", Vis, <<Entry("aliasSelect", SI, TRUE)>>)
  ELSE
    LET e == Entry("aliasSelect", SI, FALSE)
        TrueValue == Ptr[SI].srcs[1]
        FalseValue == Ptr[SI].srcs[2]
    IN  IF isSelect(V2) /\ Ptr[V2].at = Ptr[SI].at
        THEN LET Alias == aliasCheck(TrueValue, SISize, Ptr[V2].srcs[1],
                                     V2Size, Vis \cup {SI}, d - 1)
                 ThisAlias == aliasCheck(FalseValue, SISize, Ptr[V2].srcs[2],
                                         V2Size, Alias.Visited, d - 1)
             IN  IF Alias.res \in {"MayAlias", "Cut"} THEN Logged(e, Alias)
                 ELSE IF ThisAlias.res # Alias.res
                 THEN Logged(e, After(Alias, Result(ThisAlias,
                        IF ThisAlias.res = "Cut" THEN "Cut" ELSE "MayAlias")))
                 ELSE Logged(e, After(Alias, ThisAlias))
        ELSE LET Alias == aliasCheck(V2, V2Size, TrueValue, SISize,
                                     Vis \cup {SI}, d - 1)
                 ThisAlias == aliasCheck(V2, V2Size, FalseValue, SISize,
                                         Alias.Visited \ {V2}, d - 1)
             IN  IF Alias.res \in {"MayAlias", "Cut"} THEN Logged(e, Alias)
                 ELSE IF ThisAlias.res # Alias.res
                 THEN Logged(e, After(Alias, Result(ThisAlias,
                        IF ThisAlias.res = "Cut" THEN "Cut" ELSE "MayAlias")))
                 ELSE Logged(e, After(Alias, ThisAlias))

\* The loop of aliasPHI over the edges of two PHIs of one block, from edge i
\* on; A is the answer so far and valid says whether an edge was compared.
samePHIEdges(PN, PNSize, PN2, V2Size, i, A, valid, d) ==
  IF i > Len(Ptr[PN].srcs) \/ A.res = "Cut" THEN A
  ELSE LET ThisAlias == aliasCheck(Ptr[PN].srcs[i], PNSize, Ptr[PN2].srcs[i],
                                   V2Size, A.Visited, d - 1)
       IN  IF valid /\ ThisAlias.res # A.res
           THEN After(A, Result(ThisAlias,
                  IF ThisAlias.res = "Cut" THEN "Cut" ELSE "MayAlias"))
           ELSE samePHIEdges(PN, PNSize, PN2, V2Size, i + 1,
                             After(A, ThisAlias), TRUE, d)

\* The loop of aliasPHI over the sources after the first.
otherPHISources(V1Srcs, PNSize, V2, V2Size, i, A, d) ==
  IF i > Len(V1Srcs) THEN A
  ELSE LET ThisAlias == aliasCheck(V2, V2Size, V1Srcs[i], PNSize,
                                   A.Visited \ {V2}, d - 1)
       IN  IF ThisAlias.res # A.res \/ ThisAlias.res = "MayAlias"
           THEN After(A, Result(ThisAlias,
                  IF ThisAlias.res = "Cut" THEN "Cut" ELSE "MayAlias"))
           ELSE otherPHISources(V1Srcs, PNSize, V2, V2Size, i + 1,
                                After(A, ThisAlias), d)

\* The sources of a PHI, each once, in order.
uniqueSources(srcs) ==
  SelectSeq([i \in 1..Len(srcs) |->
               IF \E j \in 1..(i - 1) : srcs[j] = srcs[i] THEN "" ELSE srcs[i]],
            LAMBDA x : x # "")

aliasPHI(PN, PNSize, V2, V2Size, Vis, d) ==
  IF alreadyVisited(Vis, PN)
  THEN Answer("MayAlias", Vis, <<Entry("aliasPHI", PN, TRUE)>>)
  ELSE
    LET e == Entry("aliasPHI", PN, FALSE)
        V1Srcs == uniqueSources(Ptr[PN].srcs)
    IN  IF isPHI(V2) /\ Ptr[V2].at = Ptr[PN].at
        THEN Logged(e, samePHIEdges(PN, PNSize, V2, V2Size, 1,
                         Answer("MayAlias", Vis \cup {PN}, <<>>), FALSE, d))
        ELSE IF \E i \in 1..Len(Ptr[PN].srcs) : isPHI(Ptr[PN].srcs[i])
        THEN Answer("MayAlias", Vis \cup {PN}, <<e>>)
        ELSE LET Alias == aliasCheck(V2, V2Size, V1Srcs[1], PNSize,
                                     Vis \cup {PN}, d - 1)
             IN  IF Alias.res \in {"MayAlias", "Cut"} THEN Logged(e, Alias)
                 ELSE Logged(e, otherPHISources(V1Srcs, PNSize, V2, V2Size,
                                                2, Alias, d))

aliasCheck(V1, V1Size, V2, V2Size, Vis, d) ==
  IF d = 0 THEN Answer("Cut", Vis, <<>>)
  ELSE IF V1Size = "0" \/ V2Size = "0" THEN Answer("NoAlias", Vis, <<>>)
  ELSE
    LET UO1 == underlyingObject[V1]
        UO2 == underlyingObject[V2]
        F1  == getFirstOffset[V1]
        F2  == getFirstOffset[V2]
        swapGEP == ~isGEP(F1) /\ isGEP(F2)
        swapPHI == isPHI(F2) /\ ~isPHI(F1)
        swapSel == isSelect(F2) /\ ~isSelect(F1)
    IN  IF UO1.v = UO2.v /\ ~UO1.isOffset /\ ~UO2.isOffset
        THEN Answer("MustAlias", Vis, <<>>)
        ELSE IF UO1.v # UO2.v /\ differentObjects(UO1.v, UO2.v)
        THEN Answer("NoAlias", Vis, <<>>)
        ELSE IF isGEP(F1) \/ isGEP(F2)
        THEN IF swapGEP
             THEN aliasGEP(F2, V2Size, F1, V1Size, UO2.v, UO1.v, Vis, d)
             ELSE aliasGEP(F1, V1Size, F2, V2Size, UO1.v, UO2.v, Vis, d)
        ELSE IF isPHI(F1) \/ isPHI(F2)
        THEN IF swapPHI THEN aliasPHI(F2, V2Size, F1, V1Size, Vis, d)
             ELSE aliasPHI(F1, V1Size, F2, V2Size, Vis, d)
        ELSE IF isSelect(F1) \/ isSelect(F2)
        THEN IF swapSel THEN aliasSelect(F2, V2Size, F1, V1Size, Vis, d)
             ELSE aliasSelect(F1, V1Size, F2, V2Size, Vis, d)
        ELSE Answer("MayAlias", Vis, <<>>)

QueryInit ==
  /\ IntegratorAtRest
  /\ chase = Idle /\ attempts = Idle /\ walker = Idle
  /\ \E V1 \in PtrNames, V2 \in PtrNames, V1Size \in Sizes, V2Size \in Sizes :
       query = [pc |-> "asked", V1 |-> V1, V1Size |-> V1Size,
                V2 |-> V2, V2Size |-> V2Size]

\* aliasHypothetical: the visited set starts empty and is cleared at the end.
AliasHypothetical ==
  /\ query.pc = "asked"
  /\ LET A == aliasCheck(query.V1, query.V1Size, query.V2, query.V2Size,
                         {}, MaxQueryDepth)
     IN  query' = [pc |-> "answered", V1 |-> query.V1, V2 |-> query.V2,
                   V1Size |-> query.V1Size, V2Size |-> query.V2Size,
                   Alias |-> A.res, log |-> A.log, Visited |-> {}]
  /\ UNCHANGED <<integratorVars, chase, attempts, walker>>

QuerySpec == QueryInit /\ [][AliasHypothetical]_vars

\* The entries of a log that found their node in the visited set.
Revisits(log) == {j \in 1..Len(log) : log[j].revisit}

\* C18: within one alias query, an entry into aliasGEP, aliasSelect or
\* aliasPHI for a node that is in the visited set (entered earlier in the
\* same query) answers MayAlias without a sub-query, so every query ends
\* within the nesting depth, and a query that met a visited node answers
\* MayAlias.
VisitedNodeAnswersMayAlias ==
  query.pc = "answered" =>
    /\ query.Alias \in {"NoAlias", "MayAlias", "MustAlias"}
    /\ \A j \in Revisits(query.log) :
         \E i \in 1..(j - 1) :
           /\ query.log[i].node = query.log[j].node
           /\ ~query.log[i].revisit
    /\ Revisits(query.log) # {} => query.Alias = "MayAlias"

\* The query of the loop pointer ph against the load ld came back to ph.
VisitedNodeAnswersMayAliasWitness ==
  /\ query.pc = "answered"
  /\ query.V1 = "ph" /\ query.V2 = "ld" /\ query.V1Size = "4"
  /\ \E j \in Revisits(query.log) : query.log[j].fn = "aliasPHI"
  /\ query.Alias = "MayAlias"

-----------------------------------------------------------------------------
(* LoopPeelHeuristics: the inline attempts of one root function *)

(***************************************************************************)
(*   top(u):     tentry: tc = call F(...); ret tc     ; F and its operands *)
(*                                                    ; are drawn in Init  *)
(*   down(da):   dentry: dc = icmp slt da, 1; br dc, dbase, dstep          *)
(*               dbase:  ret 7                                             *)
(*               dstep:  dx = add da, -1; dr = call down(dx); ret dr       *)
(*   rec(ra):    rentry: rx = add ra, 1; rr = call rec(rx); ret rr         *)
(*   ping(pa):   pentry: px = add pa, 1; pr = call pong(px); ret pr        *)
(*   pong(qa):   qentry: qx = add qa, 1; qr = call ping(qx); ret qr        *)
(*   two(wx,wy): wentry: wc = icmp slt wx, 1; br wc, wa, wb                *)
(*               wa:     ret wy                                            *)
(*               wb:     ret wy                                            *)
(*   nonc(nx,ny): nentry: nv = add nx, ny; ret nv                          *)
(***************************************************************************)

MAX_NESTING == 20

\* The deepest inline attempt the model creates.
MaxAttempts == 22

HI(fn, bb, op, ops, callee) ==
  [fn |-> fn, bb |-> bb, op |-> op, ops |-> ops, callee |-> callee]

HInst ==
  [tc    |-> HI("top", "tentry", "call", <<>>, ""),
   tret  |-> HI("top", "tentry", "ret", <<Ref("tc")>>, ""),
   dc    |-> HI("down", "dentry", "slt", <<Ref("da"), const_vc(1)>>, ""),
   dbr   |-> HI("down", "dentry", "br", <<Ref("dc")>>, ""),
   dret0 |-> HI("down", "dbase", "ret", <<const_vc(7)>>, ""),
   dx    |-> HI("down", "dstep", "add", <<Ref("da"), const_vc(0 - 1)>>, ""),
   dr    |-> HI("down", "dstep", "call", <<Ref("dx")>>, "down"),
   dret  |-> HI("down", "dstep", "ret", <<Ref("dr")>>, ""),
   rx    |-> HI("rec", "rentry", "add", <<Ref("ra"), const_vc(1)>>, ""),
   rr    |-> HI("rec", "rentry", "call", <<Ref("rx")>>, "rec"),
   rret  |-> HI("rec", "rentry", "ret", <<Ref("rr")>>, ""),
   px    |-> HI("ping", "pentry", "add", <<Ref("pa"), const_vc(1)>>, ""),
   pr    |-> HI("ping", "pentry", "call", <<Ref("px")>>, "pong"),
   pret  |-> HI("ping", "pentry", "ret", <<Ref("pr")>>, ""),
   qx    |-> HI("pong", "qentry", "add", <<Ref("qa"), const_vc(1)>>, ""),
   qr    |-> HI("pong", "qentry", "call", <<Ref("qx")>>, "ping"),
   qret  |-> HI("pong", "qentry", "ret", <<Ref("qr")>>, ""),
   wc    |-> HI("two", "wentry", "slt", <<Ref("wx"), const_vc(1)>>, ""),
   wbr   |-> HI("two", "wentry", "br", <<Ref("wc")>>, ""),
   wreta |-> HI("two", "wa", "ret", <<Ref("wy")>>, ""),
   wretb |-> HI("two", "wb", "ret", <<Ref("wy")>>, ""),
   nv    |-> HI("nonc", "nentry", "add", <<Ref("nx"), Ref("ny")>>, ""),
   nret  |-> HI("nonc", "nentry", "ret", <<Ref("nv")>>, "")]

HOrder ==
  <<"tc", "tret", "dc", "dbr", "dret0", "dx", "dr", "dret", "rx", "rr",
    "rret", "px", "pr", "pret", "qx", "qr", "qret", "wc", "wbr", "wreta",
    "wretb", "nv", "nret">>

HArgs(F) ==
  CASE F = "top" -> <<"u">> [] F = "down" -> <<"da">> [] F = "rec" -> <<"ra">>
    [] F = "ping" -> <<"pa">> [] F = "pong" -> <<"qa">>
    [] F = "two" -> <<"wx", "wy">> [] F = "nonc" -> <<"nx", "ny">>

HFunctions == {"top", "down", "rec", "ping", "pong", "two", "nonc"}

HValues ==
  DOMAIN HInst \cup UNION {Range(HArgs(F)) : F \in HFunctions}

\* The successors of a block that ends in a conditional branch: the target
\* taken when the condition is true, then the other.
HSucc(b) ==
  CASE b = "dentry" -> <<"dbase", "dstep">>
    [] b = "wentry" -> <<"wa", "wb">>
    [] OTHER -> <<>>

HBlocks == {HInst[v].bb : v \in DOMAIN HInst}

HPred(b) == {p \in HBlocks : b \in Range(HSucc(p))}

\* The instructions of a function, in order.
instsOf(F) == SelectSeq(HOrder, LAMBDA v : HInst[v].fn = F)

\* The call instruction of a function, "" when it has none.
theCall(F) ==
  LET calls == SelectSeq(instsOf(F), LAMBDA v : HInst[v].op = "call")
  IN  IF calls = <<>> THEN "" ELSE calls[1]

\* HypotheticalConstantFolder::blockIsDead(BB, ignoreEdges)
HCFblockIsDead(ignoreEdges, b) ==
  HPred(b) # {} /\ \A q \in HPred(b) : <<q, b>> \in ignoreEdges

\* A new InlineAttempt; todo is what the attempt has still to do, in order.
NewAttempt(F, ncalls) ==
  [F |-> F, nested_calls |-> ncalls,
   initialConsts |-> [v \in HValues |-> VCNull],
   initialIgnoreEdges |-> {},
   returnVal |-> VCNull, returnValueAlreadyKnown |-> FALSE,
   argsAlreadyKnown |-> [j \in 1..Len(HArgs(F)) |-> FALSE],
   todo |-> <<>>]

\* The constant an operand is known to be in an attempt.
knownConstant(A, o) == IF isConstant(o) THEN o ELSE A.initialConsts[o.name]

foldInst(A, v) ==
  LET In == HInst[v]
      cs == [j \in 1..Len(In.ops) |-> knownConstant(A, In.ops[j])]
  IN  IF HCFblockIsDead(A.initialIgnoreEdges, In.bb) THEN A
      ELSE IF In.op \in {"add", "slt"}
      THEN IF \E j \in 1..Len(cs) : cs[j] = VCNull THEN A
           ELSE [A EXCEPT !.initialConsts[v] = ConstantFold(In.op, cs)]
      ELSE IF In.op = "br" /\ cs[1] # VCNull
      THEN [A EXCEPT !.initialIgnoreEdges =
              @ \cup {<<In.bb, IF cs[1].num = 0 THEN HSucc(In.bb)[1]
                               ELSE HSucc(In.bb)[2]>>}]
      ELSE A

RECURSIVE foldInsts(_, _)
foldInsts(A, q) ==
  IF q = <<>> THEN A ELSE foldInsts(foldInst(A, Head(q)), Tail(q))

\* HypotheticalConstantFolder::getBenefit: the roots become constants of the
\* attempt, and what follows from them is folded.
getBenefit(A, roots) ==
  foldInsts([A EXCEPT !.initialConsts =
               [v \in HValues |->
                  IF \E r \in roots : r[1] = v
                  THEN (CHOOSE r \in roots : r[1] = v)[2] ELSE @[v]]],
            instsOf(A.F))

\* The return instructions of an attempt's function in live blocks.
liveReturns(A) ==
  SelectSeq(instsOf(A.F),
            LAMBDA v : /\ HInst[v].op = "ret"
                       /\ ~HCFblockIsDead(A.initialIgnoreEdges, HInst[v].bb))

KeepFirstReturn(A, RI, sc) ==
  IF sc.foundReturnInst THEN sc
  ELSE [foundReturnInst |-> TRUE,
        returnVal |-> knownConstant(A, HInst[RI].ops[1])]

\* One return instruction met by the scan of localFoldConstants.
scanReturn(A, RI, sc) ==
  IF sc.foundReturnInst THEN [sc EXCEPT !.returnVal = VCNull]
  ELSE [foundReturnInst |-> TRUE,
        returnVal |-> knownConstant(A, HInst[RI].ops[1])]

RECURSIVE scanReturns(_, _, _)
scanReturns(A, q, sc) ==
  IF q = <<>> THEN sc
  ELSE scanReturns(A, Tail(q), scanReturn(A, Head(q), sc))

\* The end of localFoldConstants.
findReturnValue(A) ==
  IF A.returnVal # VCNull THEN A
  ELSE [A EXCEPT !.returnVal =
          scanReturns(A, liveReturns(A),
                      [foundReturnInst |-> FALSE, returnVal |-> VCNull]
                     ).returnVal]

\* The operands the root's call passes, and the function it calls.
RootOperands == {Ref("u"), const_vc(0), const_vc(2)}

Callees == HFunctions \ {"top"}

callOps(ci) == IF ci = "tc" THEN attempts.rootCall.ops ELSE HInst[ci].ops

callCallee(ci) ==
  IF ci = "tc" THEN attempts.rootCall.callee ELSE HInst[ci].callee

\* considerSubAttempt of the call of attempt i: the arguments it would hand
\* to the sub-attempt, and whether one of them is a constant found by
\* folding.
explored(i) == Len(attempts.frames) > i

rootValues(i) ==
  LET A  == attempts.frames[i]
      CI == theCall(A.F)
      as == HArgs(callCallee(CI))
  IN  {<<as[j], knownConstant(A, callOps(CI)[j])>> :
         j \in {k \in 1..Len(as) :
                  /\ knownConstant(A, callOps(CI)[k]) # VCNull
                  /\ explored(i) =>
                       /\ ~attempts.frames[i + 1].argsAlreadyKnown[k]
                       /\ ~isConstant(callOps(CI)[k])}}

improved(i) ==
  LET A  == attempts.frames[i]
      CI == theCall(A.F)
  IN  \E r \in rootValues(i) :
        \E k \in 1..Len(callOps(CI)) :
          /\ HArgs(callCallee(CI))[k] = r[1]
          /\ ~isConstant(callOps(CI)[k])

\* considerCalls reaches the call, and considerSubAttempt has an attempt to
\* fold arguments into.
considersSubAttempt(i, force) ==
  LET A  == attempts.frames[i]
      CI == theCall(A.F)
  IN  /\ CI # ""
      /\ ~HCFblockIsDead(A.initialIgnoreEdges, HInst[CI].bb)
      /\ improved(i) \/ (~explored(i) /\ rootValues(i) # {} /\ force)

markKnown(A, roots) ==
  [A EXCEPT !.argsAlreadyKnown =
     [j \in DOMAIN @ |-> @[j] \/ \E r \in roots : r[1] = HArgs(A.F)[j]]]

HeurInit ==
  /\ IntegratorAtRest
  /\ chase = Idle /\ query = Idle /\ walker = Idle
  /\ \E F \in Callees :
       \E ops \in [1..Len(HArgs(F)) -> RootOperands] :
         attempts = [pc |-> "running",
                     rootCall |-> [callee |-> F, ops |-> ops],
                     frames |-> <<[NewAttempt("top", 0) EXCEPT
                                     !.todo = <<"considerCallsForce">>]>>,
                     cur |-> 1]

running == attempts.pc = "running"

step == Head(attempts.frames[attempts.cur].todo)

atConsiderCalls ==
  /\ running
  /\ attempts.frames[attempts.cur].todo # <<>>
  /\ step \in {"considerCalls", "considerCallsForce"}

\* considerSubAttempt creates the sub-attempt of the call, or finds the one
\* it made before, and folds the arguments into it.
ConsiderSubAttempt ==
  /\ atConsiderCalls
  /\ considersSubAttempt(attempts.cur, step = "considerCallsForce")
  /\ LET i  == attempts.cur
         A  == attempts.frames[i]
         RV == rootValues(i)
         IA == IF explored(i) THEN attempts.frames[i + 1]
               ELSE NewAttempt(callCallee(theCall(A.F)), A.nested_calls + 1)
         folded == [getBenefit(markKnown(IA, RV), RV) EXCEPT
                      !.todo = <<"considerCalls", "returns">>]
         waiting == [A EXCEPT !.todo = <<"afterCall">> \o Tail(@)]
     IN  /\ IA.nested_calls <= MaxAttempts
         /\ attempts' =
              [attempts EXCEPT
                 !.frames = SubSeq(@, 1, i - 1) \o <<waiting, folded>>
                              \o SubSeq(@, i + 2, Len(@)),
                 !.cur = i + 1]
  /\ UNCHANGED <<integratorVars, chase, query, walker>>

\* considerCalls finds no call to improve.
NoSubAttempt ==
  /\ atConsiderCalls
  /\ ~considersSubAttempt(attempts.cur, step = "considerCallsForce")
  /\ attempts' = [attempts EXCEPT !.frames[attempts.cur].todo = Tail(@)]
  /\ UNCHANGED <<integratorVars, chase, query, walker>>

\* The sub-attempt has folded its arguments: a return value it found is
\* folded into this attempt as the value of the call.
IntegrateReturnValue ==
  /\ running
  /\ attempts.frames[attempts.cur].todo # <<>>
  /\ step = "afterCall"
  /\ LET i  == attempts.cur
         A  == attempts.frames[i]
         IA == attempts.frames[i + 1]
     IN  attempts' =
           IF ~IA.returnValueAlreadyKnown /\ IA.returnVal # VCNull
           THEN [attempts EXCEPT
                   !.frames[i + 1].returnValueAlreadyKnown = TRUE,
                   !.frames[i] =
                      [getBenefit(A, {<<theCall(A.F), IA.returnVal>>}) EXCEPT
                         !.todo = <<"considerCalls", "returns">>
                                    \o Tail(A.todo)]]
           ELSE [attempts EXCEPT !.frames[i].todo = Tail(@)]
  /\ UNCHANGED <<integratorVars, chase, query, walker>>

FindReturnValue ==
  /\ running
  /\ attempts.frames[attempts.cur].todo # <<>>
  /\ step = "returns"
  /\ attempts' =
       [attempts EXCEPT
          !.frames[attempts.cur] =
             [findReturnValue(@) EXCEPT !.todo = Tail(@)]]
  /\ UNCHANGED <<integratorVars, chase, query, walker>>

\* The attempt has nothing left to do: control is back in its parent, or the
\* root is finished.
ReturnToParent ==
  /\ running
  /\ attempts.frames[attempts.cur].todo = <<>>
  /\ attempts' = IF attempts.cur = 1 THEN [attempts EXCEPT !.pc = "done"]
                 ELSE [attempts EXCEPT !.cur = @ - 1]
  /\ UNCHANGED <<integratorVars, chase, query, walker>>

HeurNext ==
  \/ ConsiderSubAttempt \/ NoSubAttempt \/ IntegrateReturnValue
  \/ FindReturnValue \/ ReturnToParent

HeurSpec == HeurInit /\ [][HeurNext]_vars

\* C16: no inline attempt is nested deeper than MAX_NESTING.
NestingBounded ==
  \A i \in 1..Len(attempts.frames) :
    attempts.frames[i].nested_calls <= MAX_NESTING

\* The attempt above i is past the call whose sub-attempt is attempt i.
pastCall(i) ==
  \/ attempts.cur < i - 1
  \/ attempts.cur = i - 1
       /\ (attempts.frames[i - 1].todo = <<>>
             \/ Head(attempts.frames[i - 1].todo) # "afterCall")
  \/ attempts.pc = "done"

\* C20: an inline attempt has a return value only when exactly one return
\* instruction lies in a live block and its operand is a constant or folded
\* to one, and the value is that constant; with more live returns or a
\* non-constant operand it has none.  Once the caller is past the call, a
\* value the attempt found is the constant the caller holds for the call.
ReturnValueFromSingleLiveReturn ==
  \A i \in 1..Len(attempts.frames) :
    LET A == attempts.frames[i]
        live == liveReturns(A)
    IN  /\ A.returnVal # VCNull =>
             /\ Len(live) = 1
             /\ knownConstant(A, HInst[live[1]].ops[1]) = A.returnVal
        /\ (i > 1 /\ A.returnVal # VCNull /\ pastCall(i)) =>
             /\ A.returnValueAlreadyKnown
             /\ attempts.frames[i - 1].initialConsts[
                  theCall(attempts.frames[i - 1].F)] = A.returnVal

\* top called down(2): three attempts were nested, each found the return
\* value 7 once its own call was resolved, and 7 reached the root's call.
ReturnValueFromSingleLiveReturnWitness ==
  /\ attempts.pc = "done"
  /\ attempts.rootCall.callee = "down"
  /\ Len(attempts.frames) = 4
  /\ attempts.frames[2].returnVal = const_vc(7)
  /\ "dbase" \notin {HInst[v].bb : v \in Range(liveReturns(attempts.frames[2]))}
  /\ attempts.frames[1].initialConsts["tc"] = const_vc(7)

-----------------------------------------------------------------------------
(* IAWalkers: a backward or forward walk over the context tree *)

\* A cursor: iterator `it` (0 is the block's begin, the number of its
\* instructions is its end), the block, and the context.
BIC(it, BB, ctx) == [it |-> it, BB |-> BB, ctx |-> ctx]

end(BB) == Len(BlockInsts(BB))

\* The visitor of a walk: where walkInstruction stops the path or the whole
\* walk, whether shouldEnterCall lets the walk into calls, and what
\* blockedByUnexpandedCall answers.
Visitor(path, whole, enters, blocked) ==
  [stopPath |-> path, stopWalk |-> whole, entersCalls |-> enters,
   blocked |-> blocked]

Visitors ==
  {Visitor({}, {}, TRUE, FALSE), Visitor({"inc", "b"}, {}, TRUE, FALSE),
   Visitor({}, {"t"}, TRUE, FALSE), Visitor({}, {}, FALSE, FALSE),
   Visitor({}, {}, TRUE, TRUE)}

walkInstruction(vis, v) ==
  IF v \in vis.stopWalk THEN "WIRStopWholeWalk"
  ELSE IF v \in vis.stopPath THEN "WIRStopThisPath"
  ELSE "WIRContinue"

WalkResult(wir, StoppedCI) == [wir |-> wir, StoppedCI |-> StoppedCI]

\* What follows an instruction v that walkInstruction let pass.  The cast
\* that looks for a call reads the pointer it is about to initialise: the
\* build may fail there, find no call, or find one (v itself when v is a
\* call, otherwise a stray pointer), which stops the walk of the block when
\* shouldEnterCall agrees.
castOutcomes(vis, v) ==
  {WalkResult("failed", "")}
    \cup (IF vis.entersCalls
          THEN {WalkResult("WIRContinue",
                           IF Inst[v].op = "call" THEN v ELSE "stray")}
          ELSE {})

\* BackwardIAWalker::walkFromInst with the iterator at it, as the set of its
\* possible answers: the instruction at the block's begin is never walked.
RECURSIVE walkFromInstBW(_, _, _)
walkFromInstBW(vis, BB, it) ==
  IF it - 1 = 0 THEN {WalkResult("WIRContinue", "")}
  ELSE LET v   == BlockInsts(BB)[it]
           WIR == walkInstruction(vis, v)
       IN  IF WIR # "WIRContinue" THEN {WalkResult(WIR, "")}
           ELSE castOutcomes(vis, v) \cup walkFromInstBW(vis, BB, it - 1)

\* ForwardIAWalker::walkFromInst, as the set of its possible answers.
RECURSIVE walkFromInstFW(_, _, _)
walkFromInstFW(vis, BB, it) ==
  IF it = end(BB) THEN {WalkResult("WIRContinue", "")}
  ELSE LET v   == BlockInsts(BB)[it + 1]
           WIR == walkInstruction(vis, v)
       IN  IF WIR # "WIRContinue" THEN {WalkResult(WIR, "")}
           ELSE castOutcomes(vis, v) \cup walkFromInstFW(vis, BB, it + 1)

RECURSIVE Concat(_)
Concat(qs) == IF qs = <<>> THEN <<>> ELSE Head(qs) \o Concat(Tail(qs))

\* IntegrationAttempt::queueLoopExitingBlocksBW, as the cursors it queues.
queueLoopExitingBlocksBW(S, c, ExitedBB, ExitingBB, ExitingBBL) ==
  IF getLoopContext(c) = ExitingBBL
  THEN IF edgeIsDead(S, c, ExitingBB, ExitedBB) THEN <<>>
       ELSE <<BIC(end(ExitingBB), ExitingBB, c)>>
  ELSE IF getPeelAttempt(S, ExitingBBL)
  THEN Concat([j \in 1..S.Iterations |->
                 IF edgeIsDead(S, getIteration(j - 1), ExitingBB, ExitedBB)
                 THEN <<>>
                 ELSE <<BIC(end(ExitingBB), ExitingBB, getIteration(j - 1))>>])
  ELSE <<BIC(end(ExitingBB), ExitingBB, c)>>

\* IntegrationAttempt::queueNormalPredecessorsBW
queueNormalPredecessorsBW(S, c, FromBB) ==
  Concat([j \in 1..Len(pred(FromBB)) |->
            LET BB == pred(FromBB)[j]
            IN  IF getLoopContext(c) # getLoopFor(FromBB)
                   \/ getLoopFor(BB) = getLoopContext(c)
                THEN IF edgeIsDead(S, c, BB, FromBB) THEN <<>>
                     ELSE <<BIC(end(BB), BB, c)>>
                ELSE queueLoopExitingBlocksBW(S, c, FromBB, BB,
                                              getLoopFor(BB))])

\* The call instruction an inline attempt stands for, as a cursor.
callCursor(ia) ==
  LET q == BlockInsts(Inst["a"].bb)
  IN  (CHOOSE j \in 1..Len(q) : q[j] = "a") - 1

\* The backward walker staying in its own context at the top of the entry
\* block.
StaysInContext(S, c, FromBB) == queueNormalPredecessorsBW(S, c, FromBB)

\* InlineAttempt::queuePredecessorsBW and PeelIteration::queuePredecessorsBW
queuePredecessorsBW(S, c, FromBB) ==
  IF isIteration(c)
  THEN IF FromBB = getHeader("L")
       THEN IF iterationCount(c) = 0
            THEN <<BIC(end(getLoopPreheader("L")), getLoopPreheader("L"),
                       parent(c))>>
            ELSE <<BIC(end(getLoopLatch("L")), getLoopLatch("L"),
                       getIteration(iterationCount(c) - 1))>>
       ELSE queueNormalPredecessorsBW(S, c, FromBB)
  ELSE IF FromBB = getEntryBlock(c) /\ parent(c) # ""
  THEN <<BIC(callCursor(c), Inst["a"].bb, parent(c))>>
  ELSE queueNormalPredecessorsBW(S, c, FromBB)

\* The forward walker stopping at a latch whose loop has no next iteration.
StopsWithoutNextIteration(S, c, BB, SB) ==
  IF edgeIsDead(S, c, BB, SB) THEN <<>>
  ELSE IF isIteration(c) /\ BB = getLoopLatch("L") /\ SB = getHeader("L")
  THEN IF getNextIteration(S, c) = "" THEN <<>>
       ELSE <<BIC(0, SB, getNextIteration(S, c))>>
  ELSE IF getLoopContext(c) # getLoopFor(BB) THEN <<BIC(0, SB, c)>>
  ELSE IF getLoopFor(SB) = getLoopContext(c) THEN <<BIC(0, SB, c)>>
  ELSE IF getLoopContext(c) = "none"
  THEN IF getPeelAttempt(S, getLoopFor(SB))
       THEN <<BIC(0, SB, getIteration(0))>> ELSE <<>>
  ELSE <<BIC(0, SB, parent(c))>>

\* IntegrationAttempt::queueSuccessorsFW for one successor SB of BB.
queueSuccessorFW(S, c, BB, SB) ==
  IF edgeIsDead(S, c, BB, SB) THEN <<>>
  ELSE IF isIteration(c) /\ BB = getLoopLatch("L") /\ SB = getHeader("L")
  THEN <<BIC(0, SB, IF getNextIteration(S, c) = "" THEN parent(c)
                    ELSE getNextIteration(S, c))>>
  ELSE IF getLoopContext(c) # getLoopFor(BB) THEN <<BIC(0, SB, c)>>
  ELSE IF getLoopFor(SB) = getLoopContext(c) THEN <<BIC(0, SB, c)>>
  ELSE IF getLoopContext(c) = "none"
  THEN IF getPeelAttempt(S, getLoopFor(SB))
       THEN <<BIC(0, SB, getIteration(0))>> ELSE <<>>
  ELSE <<BIC(0, SB, parent(c))>>

\* InlineAttempt::queueSuccessorsFW and IntegrationAttempt::queueSuccessorsFW
queueSuccessorsFW(S, c, BB) ==
  IF ~isIteration(c) /\ Inst[BlockInsts(BB)[end(BB)]].op = "ret"
  THEN IF parent(c) # ""
       THEN <<BIC(callCursor(c) + 1, Inst["a"].bb, parent(c))>>
       ELSE <<>>
  ELSE Concat([j \in 1..Len(succ(BB)) |->
                 queueSuccessorFW(S, c, BB, succ(BB)[j])])

\* The cursors queued when the walk stopped at a call with an inline
\* attempt: the live return blocks of the callee, or its entry block.
returnBlocks(S, ia) ==
  SelectSeq(<<"gentry">>,
            LAMBDA b : /\ Inst[BlockInsts(b)[end(b)]].op = "ret"
                       /\ ~blockIsDead(S, ia, b))

enterCallBW(S, ia) ==
  [j \in 1..Len(returnBlocks(S, ia)) |->
     BIC(end(returnBlocks(S, ia)[j]), returnBlocks(S, ia)[j], ia)]

enterCallFW(S, ia) == <<BIC(0, getEntryBlock(ia), ia)>>

AlwaysQueue(W, bic) ==
  [W EXCEPT !.Visited = @ \cup {bic}, !.PList = Append(@, bic),
            !.pushed = Append(@, bic)]

\* IAWalker::queueWalkFrom
queueWalkFrom(W, bic) ==
  IF bic \in W.Visited THEN [W EXCEPT !.refused = Append(@, bic)]
  ELSE [W EXCEPT !.Visited = @ \cup {bic}, !.PList = Append(@, bic),
                 !.pushed = Append(@, bic)]

RECURSIVE queueAll(_, _)
queueAll(W, q) ==
  IF q = <<>> THEN W ELSE queueAll(queueWalkFrom(W, Head(q)), Tail(q))

\* The oracle's answers under which the tree the walk runs over was built.
WalkOracles ==
  {m \in Oracles :
     /\ m["c"] \in {VCNull, const_vc(0), const_vc(1)}
     /\ m["n"] \in {VCNull, const_vc(0), const_vc(MaxTrip)}
     /\ m["k"] = const_vc(1)
     /\ m["b"] = VCNull}

StartInsts == {"br_e", "a", "br_H", "s2", "r", "ret_M", "d"}

\* The iterator the constructors start from.  The backward walker has two
\* constructors of the same signature: without skipFirst one steps before
\* the instruction, the other past it.
startIterators(dir, v, skipFirst) ==
  LET q  == BlockInsts(Inst[v].bb)
      it == (CHOOSE j \in 1..Len(q) : q[j] = v) - 1
  IN  IF dir = "FW" THEN {IF skipFirst THEN it + 1 ELSE it}
      ELSE IF skipFirst THEN {it}
      ELSE {it + 1} \cup (IF it > 0 THEN {it - 1} ELSE {})

\* The constructor: the starting cursor is visited and on the frontier.
NewWalker(dir, vis, bic) ==
  [pc |-> "walking", dir |-> dir, visitor |-> vis,
   PList |-> <<bic>>, CList |-> <<>>, i |-> 0, Visited |-> {bic},
   pushed |-> <<bic>>, processed |-> <<>>, refused |-> <<>>]

\* The integrator builds the tree under one of these answers, as in Init.
WalkInit == Init /\ memory \in WalkOracles

\* A walker is constructed once the integrator's queues have drained.
StartWalk ==
  /\ walker = Idle
  /\ Drained /\ dieStarted
  /\ \E dir \in {"BW", "FW"}, vis \in Visitors, v \in StartInsts,
        skipFirst \in BOOLEAN :
       \E c \in ExistingCtx, it \in startIterators(dir, v, skipFirst) :
         /\ ValueFunction(v) = CtxFunction(c)
         /\ isIteration(c) => LoopContainsBlock("L", Inst[v].bb)
         /\ walker' = NewWalker(dir, vis, BIC(it, Inst[v].bb, c))
  /\ UNCHANGED <<integratorVars, chase, query, attempts>>

walking == walker.pc = "walking"

StayOnCursor(W, ThisStart, R) ==
  [W EXCEPT !.processed = Append(@, ThisStart)]

\* The walk going on past a call that has no inline attempt.
WalksPastUnexpandedCall(W, ThisStart, R) ==
  LET W1 == [W EXCEPT !.i = @ + 1, !.processed = Append(@, ThisStart)]
      c  == ThisStart.ctx
  IN  IF R.wir = "WIRStopThisPath" THEN W1
      ELSE IF R.wir = "WIRStopWholeWalk" THEN [W1 EXCEPT !.pc = "stopped"]
      ELSE IF R.wir = "failed" THEN [W1 EXCEPT !.pc = "failed"]
      ELSE IF R.StoppedCI # "" /\ getInlineAttempt(State, c, R.StoppedCI)
      THEN queueAll(W1, IF W.dir = "BW" THEN enterCallBW(State, "ia")
                        ELSE enterCallFW(State, "ia"))
      ELSE queueAll(W1, IF W.dir = "BW"
                        THEN queuePredecessorsBW(State, c, ThisStart.BB)
                        ELSE queueSuccessorsFW(State, c, ThisStart.BB))

\* What the body of the loop over CList does with the cursor ThisStart once
\* walkFromInst has answered R.
afterWalkFromInst(W, ThisStart, R) ==
  LET W1 == [W EXCEPT !.i = @ + 1, !.processed = Append(@, ThisStart)]
      c  == ThisStart.ctx
  IN  IF R.wir = "WIRStopThisPath" THEN W1
      ELSE IF R.wir = "WIRStopWholeWalk" THEN [W1 EXCEPT !.pc = "stopped"]
      ELSE IF R.wir = "failed" THEN [W1 EXCEPT !.pc = "failed"]
      ELSE IF R.StoppedCI # ""
      THEN IF getInlineAttempt(State, c, R.StoppedCI)
           THEN queueAll(W1, IF W.dir = "BW" THEN enterCallBW(State, "ia")
                             ELSE enterCallFW(State, "ia"))
           ELSE IF W.visitor.blocked THEN [W1 EXCEPT !.pc = "stopped"]
           ELSE W1
      ELSE queueAll(W1, IF W.dir = "BW"
                        THEN queuePredecessorsBW(State, c, ThisStart.BB)
                        ELSE queueSuccessorsFW(State, c, ThisStart.BB))

\* One round of the loop over CList.
WalkFrom ==
  /\ walking
  /\ walker.i < Len(walker.CList)
  /\ LET ThisStart == walker.CList[walker.i + 1]
     IN  /\ ~(walker.dir = "BW" /\ ThisStart.it = 0)
         /\ \E R \in (IF walker.dir = "BW"
                      THEN walkFromInstBW(walker.visitor, ThisStart.BB,
                                          ThisStart.it)
                      ELSE walkFromInstFW(walker.visitor, ThisStart.BB,
                                          ThisStart.it)) :
              walker' = afterWalkFromInst(walker, ThisStart, R)
  /\ UNCHANGED <<integratorVars, chase, query, attempts>>

\* A backward round whose cursor is at the begin of its block: walkFromInst
\* decrements the iterator past the begin.  The build either fails there, or
\* the iterator wraps to the block's end and the block is walked from there.
WalkFromBegin ==
  /\ walking
  /\ walker.i < Len(walker.CList)
  /\ LET ThisStart == walker.CList[walker.i + 1]
     IN  /\ walker.dir = "BW" /\ ThisStart.it = 0
         /\ \/ walker' = [walker EXCEPT !.pc = "failed"]
            \/ \E R \in walkFromInstBW(walker.visitor, ThisStart.BB,
                                       end(ThisStart.BB)) :
                 walker' = afterWalkFromInst(walker, ThisStart, R)
  /\ UNCHANGED <<integratorVars, chase, query, attempts>>

\* The end of a round of the outer loop: CList is cleared, the lists are
\* swapped, and the walk is over when both are empty.
SwapLists ==
  /\ walking
  /\ walker.i = Len(walker.CList)
  /\ walker' = [walker EXCEPT !.CList = walker.PList, !.PList = <<>>,
                              !.i = 0,
                              !.pc = IF walker.PList = <<>> THEN "finished"
                                     ELSE "walking"]
  /\ UNCHANGED <<integratorVars, chase, query, attempts>>

WalkNext == Next \/ StartWalk \/ WalkFrom \/ WalkFromBegin \/ SwapLists

WalkSpec == WalkInit /\ [][WalkNext]_vars

NoDuplicates(q) == \A j, k \in 1..Len(q) : q[j] = q[k] => j = k

\* C14: within one walk each (cursor, block, context) triple is placed on
\* the frontier at most once and processed at most once: the visited set is
\* exactly what was ever placed on the frontier, the starting cursor
\* included from construction, the two buffers hold distinct cursors none of
\* which was processed in an earlier round, and a cursor queueWalkFrom
\* turned down had been visited before.
EachCursorOnce ==
  walker.pc # "idle" =>
    /\ NoDuplicates(walker.pushed)
    /\ NoDuplicates(walker.processed)
    /\ walker.Visited = Range(walker.pushed)
    /\ walker.pushed[1] \in walker.Visited
    /\ Range(walker.processed) \subseteq walker.Visited
    /\ NoDuplicates(walker.PList \o walker.CList)
    /\ Range(walker.PList) \cap Range(walker.processed) = {}
    /\ Range(walker.refused) \subseteq walker.Visited

\* A backward walk of the unpeeled loop in the root context ran round the
\* cycle: the latch's predecessor, the header, was turned down.
EachCursorOnceWitness ==
  /\ walker.pc = "finished" /\ walker.dir = "BW"
  /\ Iterations = 0
  /\ BIC(end("T"), "T", "root") \in Range(walker.processed)
  /\ BIC(end("H"), "H", "root") \in Range(walker.processed)
  /\ BIC(end("H"), "H", "root") \in Range(walker.refused)

\* Every cursor there is.
AllCursors ==
  UNION {{BIC(it, b, c) : it \in 0..end(b), c \in Ctx} : b \in Blocks}

\* What is left of a walk: the cursors not yet visited, those waiting in the
\* next frontier, those left in the current one, and the walk itself.
walkMeasure(W) ==
  IF W.pc = "idle" THEN 0
  ELSE 2 * (Cardinality(AllCursors) - Cardinality(W.Visited))
       + 2 * Len(W.PList)
       + (Len(W.CList) - W.i) + (IF W.pc = "walking" THEN 1 ELSE 0)

-----------------------------------------------------------------------------
(* Loops that cannot be peeled *)

F2Loads == Loads \ MainLoads

\* The pass run on f2: its entry block and its loads are queued.  The two
\* conditions m1 and m2 are unknown, 0 or 1; the loads inside the loops are
\* unknown.
UnpeelableInit ==
  /\ memory \in {[v \in Loads |-> IF v = "m1" THEN x ELSE IF v = "m2" THEN y ELSE VCNull] :
                   x \in {VCNull, const_vc(0), const_vc(1)},
                   y \in {VCNull, const_vc(0), const_vc(1)}}
  /\ deadBlocks = [c \in Ctx |-> {}]
  /\ deadEdges = [c \in Ctx |-> {}]
  /\ certainBlocks = [c \in Ctx |-> {}]
  /\ improvedValues = [c \in Ctx |-> [v \in Values |-> VCNull]]
  /\ deadValues = [c \in Ctx |-> {}]
  /\ iterStatus = [c \in IterCtx |-> "Unknown"]
  /\ Iterations = 0
  /\ inlineChildren = FALSE
  /\ checkBlockQ = {<<"root2", "uentry">>}
  /\ tryEvaluateQ = {}
  /\ checkLoadQ = {<<"root2", v>> : v \in F2Loads}
  /\ dieQ = {}
  /\ dieStarted = FALSE
  /\ last = Item("init", "", "")
  /\ chase = Idle /\ query = Idle /\ attempts = Idle /\ walker = Idle

QueueAllLiveValuesF2 ==
  /\ MainQueuesEmpty
  /\ ~dieStarted
  /\ dieStarted' = TRUE
  /\ Commit(queueAllLiveValues(State, "root2"),
            Item("queueAllLiveValues", "root2", ""))

UnpeelableNext ==
  CheckBlockAny \/ TryEvaluateAny \/ CheckLoadAny \/ QueueAllLiveValuesF2
    \/ TryKillValueAny

UnpeelableSpec == UnpeelableInit /\ [][UnpeelableNext]_vars

UnpeelableLoopBlocks == {b \in F2Blocks : getLoopFor(b) # "none"}

\* C22: for a loop without a preheader or without a latch no peel attempt is
\* made, and no block inside the loop is ever recorded dead or certain in the
\* enclosing context.
LoopBlocksStayUnknown ==
  /\ Iterations = 0
  /\ \A b \in UnpeelableLoopBlocks :
       b \notin deadBlocks["root2"] \cup certainBlocks["root2"]

-----------------------------------------------------------------------------
(* A counted loop *)

\* The constant bound of the counted loop: for (i = 0; i < TripCount; i++).
TripCount == MaxTrip + 1

\* main with the bound n = TripCount and the addend's source k = 1; the guard
\* c and the load b are free.
CountedInit ==
  /\ memory \in {[v \in Loads |->
                    CASE v = "c" -> x
                      [] v = "n" -> const_vc(TripCount)
                      [] v = "k" -> const_vc(1)
                      [] v = "b" -> y
                      [] OTHER -> VCNull] :
                   x \in OracleAnswers("c"), y \in OracleAnswers("b")}
  /\ deadBlocks = [c \in Ctx |-> {}]
  /\ deadEdges = [c \in Ctx |-> {}]
  /\ certainBlocks = [c \in Ctx |-> {}]
  /\ improvedValues = [c \in Ctx |-> [v \in Values |-> VCNull]]
  /\ deadValues = [c \in Ctx |-> {}]
  /\ iterStatus = [c \in IterCtx |-> "Unknown"]
  /\ Iterations = 0
  /\ inlineChildren = FALSE
  /\ checkBlockQ = {<<"root", "entry">>}
  /\ tryEvaluateQ = {}
  /\ checkLoadQ = {<<"root", v>> : v \in MainLoads}
  /\ dieQ = {}
  /\ dieStarted = FALSE
  /\ last = Item("init", "", "")
  /\ chase = Idle /\ query = Idle /\ attempts = Idle /\ walker = Idle

CountedSpec == CountedInit /\ [][Next]_vars

\* The last iteration of the peel attempt.
LastIteration == getIteration(Iterations - 1)

\* An iteration is created only after the previous one, whose latch edge is
\* then not dead and which is not final.
CreatedInTurn ==
  Iterations' # Iterations =>
    /\ Iterations' = Iterations + 1
    /\ Iterations > 0 =>
         /\ iterStatus[LastIteration] # "Final"
         /\ ~edgeIsDead(State, LastIteration, getLoopLatch("L"),
                        getHeader("L"))

\* The fixpoint of the counted loop when the loop is entered: one iteration
\* per trip and the one that leaves, which is final, and the exit PHI of the
\* sum is the trip count times the addend.
CountedFixpoint ==
  (MainQueuesEmpty /\ "A" \in certainBlocks["root"]) =>
    /\ Iterations = TripCount + 1
    /\ iterStatus[LastIteration] = "Final"
    /\ improvedValues["root"]["a"].kind = "const"
    /\ improvedValues["root"]["r"] =
         const_vc(TripCount * improvedValues["root"]["a"].num)

-----------------------------------------------------------------------------
(* The final iteration *)

\* IntegrationAttempt::describeLoopAsDOT: what is reported of a loop that is
\* not ignored.
describeLoopAsDOT(S, l) ==
  IF ~getPeelAttempt(S, l) THEN <<"Not explored", 0>>
  ELSE <<IF S.iterStatus[lastIteration(S)] = "Final"
         THEN "Terminated" ELSE "Not terminated", S.Iterations>>

FinalOnlyOnLast ==
  \A c \in IterCtx :
    iterStatus[c] = "Final" => Iterations > 0 /\ c = LastIteration

TerminatedStays ==
  describeLoopAsDOT(State, "L")[1] = "Terminated" =>
    /\ Iterations' = Iterations
    /\ describeLoopAsDOT(State, "L")' = describeLoopAsDOT(State, "L")

\* C23: Final appears only on the last iteration of the peel attempt, and
\* once the loop is reported terminated no iteration is created and the
\* report, with its iteration count, stays the same.
FinalEndsPeeling == [][TerminatedStays]_vars /\ []FinalOnlyOnLast

FinalEndsPeelingWitness ==
  /\ Iterations >= 2
  /\ describeLoopAsDOT(State, "L") = <<"Terminated", Iterations>>
  /\ improvedValues["root"]["r"] # VCNull

-----------------------------------------------------------------------------
(* What dead-value elimination touches *)

\* The values queued for elimination or recorded dead, with their contexts.
DIETouched ==
  dieQ \cup UNION {{<<c, v>> : v \in deadValues[c]} : c \in Ctx}

OpsTouched == {Inst[w[2]].op : w \in {w \in DIETouched : isInstruction(w[2])}}

\* The original statement of C24: no control instruction, the return
\* included, no alloca and no store is queued for elimination or recorded
\* dead.
NoControlAllocaStoreTouched ==
  OpsTouched \cap {"br", "switch", "ret", "unreachable", "indirectbr",
                   "alloca", "store"} = {}

ReturnKilledWhenCallUnused ==
  \A c \in Ctx : \A v \in deadValues'[c] \ deadValues[c] :
    (isInstruction(v) /\ Inst[v].op = "ret") =>
      /\ parent(getFunctionRoot(c)) # ""
      /\ valueIsDead(State, parent(getFunctionRoot(c)), "a")

\* C24: branches, switches, unreachables, indirect branches, allocas and
\* stores are never queued for elimination nor recorded dead; a call is
\* queued only with an inline attempt; a return instruction is queued, and is
\* recorded dead only in an inline attempt whose call is unused in the caller.
OnlyEligibleTouched ==
  /\ [](/\ OpsTouched \cap {"br", "switch", "unreachable", "indirectbr",
                            "alloca", "store"} = {}
        /\ \A w \in DIETouched :
             (isInstruction(w[2]) /\ Inst[w[2]].op = "call") =>
               getInlineAttempt(State, w[1], w[2]))
  /\ [][ReturnKilledWhenCallUnused]_vars

OnlyEligibleTouchedWitness ==
  /\ "ret_g" \in deadValues["ia"]
  /\ "d" \in deadValues["ia"]
  /\ dieQ = {}

-----------------------------------------------------------------------------
(* A branch with a known target *)

isConditional(v) ==
  isInstruction(v) /\ Inst[v].op = "br" /\ Len(succ(Inst[v].bb)) = 2

\* The step evaluates the conditional branch v in context c, whose condition
\* is a constant there.
BranchEvaluated(c, v) ==
  /\ last' = Item("tryEvaluate", c, v)
  /\ vars' # vars
  /\ isConditional(v)
  /\ shouldTryEvaluate(State, c, v)
  /\ getConstReplacement(State, c, Inst[v].ops[1]) # VCNull

takenTarget(c, v) ==
  IF getConstReplacement(State, c, Inst[v].ops[1]).num = 0
  THEN succ(Inst[v].bb)[2] ELSE succ(Inst[v].bb)[1]

otherTargets(c, v) == Range(succ(Inst[v].bb)) \ {takenTarget(c, v)}

isSpecialEdge(c, f, t) ==
  IF isIteration(c)
  THEN \/ (f = getLoopLatch("L") /\ t = getHeader("L"))
       \/ ~LoopContainsBlock("L", t)
  ELSE /\ getLoopFor(t) # "none"
       /\ t = getHeader(getLoopFor(t))
       /\ f = getLoopPreheader(getLoopFor(t))

BranchStepChecksUndecided(c, v) ==
  /\ \A t \in Range(succ(Inst[v].bb)) :
       shouldCheckBlock(State, c, t) =>
         /\ t # takenTarget(c, v) => <<Inst[v].bb, t>> \in deadEdges'[c]
         /\ t = takenTarget(c, v) => <<Inst[v].bb, t>> \notin deadEdges'[c]
         /\ ~isSpecialEdge(c, Inst[v].bb, t) => <<c, t>> \in checkBlockQ'
         /\ (isIteration(c) /\ isSpecialEdge(c, Inst[v].bb, t)) =>
              <<c, t>> \notin checkBlockQ'
  /\ improvedValues'[c][v] = VCNull

-----------------------------------------------------------------------------
(* Users of an improved value *)

\* The step evaluates V in context c and records an improvement for it.
NewlyImproved(c, V) ==
  /\ last'.op \in {"tryEvaluate", "checkLoad"}
  /\ last'.ctx = c /\ last'.val = V
  /\ improvedValues[c][V] = VCNull
  /\ improvedValues'[c][V] # VCNull

\* The users visitUsers finds for V.
FoundUsers(c, V) ==
  {e \in Range(visitUsers(State, c, V)) : ~e.missed}

\* The original statement of C26: the evaluation of every user found is
\* queued by the end of the step.
EveryUserQueued ==
  [][\A c \in Ctx : \A V \in CtxValues(c) :
       NewlyImproved(c, V) =>
         \A e \in FoundUsers(c, V) : <<e.ctx, e.user>> \in tryEvaluateQ']_vars

\* What queueTryEvaluateGeneric leaves queued for a user found.
UserWorkQueued(e) ==
  CASE Inst[e.user].op = "call" ->
         getInlineAttempt(State, e.ctx, e.user)' =>
           <<"ia", "p">> \in tryEvaluateQ'
    [] Inst[e.user].op = "ret" ->
         e.ctx = "ia" => <<parent(e.ctx), "a">> \in tryEvaluateQ'
    [] Inst[e.user].op = "load" -> <<e.ctx, e.user>> \in checkLoadQ'
    [] OTHER -> <<e.ctx, e.user>> \in tryEvaluateQ'

UsersInvestigated ==
  \A c \in Ctx : \A V \in CtxValues(c) :
    NewlyImproved(c, V) =>
      \A e \in FoundUsers(c, V) :
        IF shouldTryEvaluate(State, e.ctx, e.user) THEN UserWorkQueued(e)
        ELSE <<e.ctx, e.user>> \in tryEvaluateQ' =>
               <<e.ctx, e.user>> \in tryEvaluateQ

hasImprovedOperand(c, v) ==
  \E j \in 1..Len(Inst[v].ops) :
    /\ Inst[v].ops[j].kind = "val"
    /\ getReplacement(State, c, Inst[v].ops[j]) # getDefaultVC(c, Inst[v].ops[j])

\* With the queues empty, evaluating again an unimproved instruction of a
\* live block that has an improved operand gives no improvement.
NothingLeftToImprove ==
  MainQueuesEmpty =>
    \A c \in ExistingCtx : \A v \in CtxValues(c) :
      (isInstruction(v) /\ Inst[v].op # "load"
         /\ shouldTryEvaluate(State, c, v) /\ hasImprovedOperand(c, v)) =>
        LET R == tryEvaluateResult(State, c, v)
        IN  R.ret = VCNull \/ ~shouldForwardValue(R.st, R.ret)

\* C26: when an evaluation records a new improvement for V, every user found
\* by visitUsers that is unimproved and in a live block has its work queued
\* before the step ends: the evaluation of the user, or for a call the
\* evaluation of the parameter in its inline attempt, for a return the
\* evaluation of the call in the caller, for a load its load check; and with
\* the queues empty no unimproved instruction of a live block that has an
\* improved operand can be improved.
ImprovementQueuesUsers == [][UsersInvestigated]_vars /\ []NothingLeftToImprove

ImprovementQueuesUsersWitness ==
  /\ last = Item("tryEvaluate", "it0", "inc")
  /\ improvedValues["it0"]["inc"] # VCNull
  /\ <<"it1", "i">> \in tryEvaluateQ

-----------------------------------------------------------------------------
(* Dead blocks hold no improvement *)

\* C27: no instruction of a block recorded dead in a context holds an
\* improvement in that context.
DeadBlocksHoldNoImprovement ==
  \A c \in Ctx : \A b \in deadBlocks[c] :
    \A v \in Range(BlockInsts(b)) : improvedValues[c][v] = VCNull

\* The load b was checked while its block lived, and then the block died.
DeadBlocksHoldNoImprovementWitness ==
  /\ last = Item("checkBlock", "root", "B")
  /\ "B" \in deadBlocks["root"]
  /\ memory["b"] # VCNull
  /\ <<"root", "b">> \notin checkLoadQ

-----------------------------------------------------------------------------
(* Killing a value with side effects *)

\* The step is tryKillValue on the instruction V of context c, which may
\* have side effects and is not recorded dead.
SideEffectKillStep(c, V) ==
  /\ last' = Item("tryKillValue", c, V)
  /\ <<c, V>> \in dieQ
  /\ isInstruction(V) /\ mayHaveSideEffects(V)
  /\ V \notin deadValues[c]

factVars ==
  <<memory, deadBlocks, deadEdges, certainBlocks, improvedValues, deadValues,
    iterStatus, Iterations, inlineChildren, checkBlockQ, tryEvaluateQ,
    checkLoadQ>>

ReturnsOf(ia) ==
  {<<ia, v>> : v \in {v \in Instructions :
                       Inst[v].op = "ret" /\ ValueFunction(v) = CtxFunction(ia)}}

callIsUnused(c, V) ==
  Inst[V].op = "call" /\ getInlineAttempt(State, c, V) /\ valueIsDead(State, c, V)

EveryReturnQueued ==
  \A c \in Ctx : \A V \in CtxValues(c) :
    (SideEffectKillStep(c, V) /\ callIsUnused(c, V)) =>
      ReturnsOf("ia") \subseteq dieQ'

NoSideEffectRecordedDead ==
  \A c \in Ctx : \A v \in deadValues[c] :
    isInstruction(v) => ~mayHaveSideEffects(v)

\* The returns queueDIE accepts: not yet dead, not improved, in a live block.
LiveReturnsOf(ia) ==
  {w \in ReturnsOf(ia) : /\ ~blockIsDead(State, ia, Inst[w[2]].bb)
                         /\ ~localValueIsDead(State, ia, w[2])}

SideEffectKillRequeuesReturns ==
  \A c \in Ctx : \A V \in CtxValues(c) :
    SideEffectKillStep(c, V) =>
      /\ UNCHANGED factVars
      /\ dieQ' = (dieQ \ {<<c, V>>})
                   \cup (IF callIsUnused(c, V) THEN LiveReturnsOf("ia") ELSE {})

\* C28: tryKillValue never records an instruction that may have side effects
\* dead; on a call with an inline attempt whose uses are all dead it queues
\* the return instructions of the attempt, which are all of them, and on any
\* instruction with side effects nothing else changes.
SideEffectsNeverKilled ==
  /\ []NoSideEffectRecordedDead
  /\ [][SideEffectKillRequeuesReturns /\ EveryReturnQueued]_vars

SideEffectsNeverKilledWitness ==
  /\ last = Item("tryKillValue", "root", "a")
  /\ <<"ia", "ret_g">> \in dieQ
  /\ "a" \notin deadValues["root"]

-----------------------------------------------------------------------------
(* The walkers and the iterations of a loop *)

\* The cursors the step adds to the walk.
NewCursors ==
  IF walking /\ walker'.pc # "idle" THEN walker'.Visited \ walker.Visited
  ELSE {}

\* The cursor the step works on.
ThisStart == walker.CList[walker.i + 1]

BackwardStep == walking /\ walker.dir = "BW" /\ walker.i < Len(walker.CList)

\* C29: a backward walker that flows from a block outside a loop into the
\* loop enters an iteration only if it is the last one of the peel attempt
\* and its status is Final.
BackwardEntersOnlyFinalIteration ==
  [][BackwardStep =>
       \A bic \in NewCursors :
         (isIteration(bic.ctx) /\ ~isIteration(ThisStart.ctx)) =>
           /\ bic.ctx = LastIteration
           /\ iterStatus[bic.ctx] = "Final"]_vars

\* A forward round over a cursor in the latch of an iteration whose edge to
\* the header is not dead, in which walkFromInst reaches the end of the
\* block without the visitor stopping it.
LatchStep ==
  /\ walking /\ walker.dir = "FW" /\ walker.i < Len(walker.CList)
  /\ ThisStart.BB = getLoopLatch("L")
  /\ isIteration(ThisStart.ctx)
  /\ ~edgeIsDead(State, ThisStart.ctx, getLoopLatch("L"), getHeader("L"))
  /\ WalkResult("WIRContinue", "")
       \in walkFromInstFW(walker.visitor, ThisStart.BB, ThisStart.it)
  /\ walker' = afterWalkFromInst(walker, ThisStart,
                                 WalkResult("WIRContinue", ""))

\* The header in the iteration after the cursor's, or in the parent context
\* when the peel attempt has no such iteration.
NextHeader ==
  BIC(0, getHeader("L"),
      IF iterationCount(ThisStart.ctx) + 1 < Iterations
      THEN getIteration(iterationCount(ThisStart.ctx) + 1)
      ELSE parent(ThisStart.ctx))

OfferedLast(before, after, bic) ==
  /\ Len(after) = Len(before) + 1
  /\ after[Len(after)] = bic

\* C30: a forward walker that reaches the end of the latch of iteration n
\* over a live latch-to-header edge offers the header of iteration n+1 to
\* the frontier when that iteration exists and the header in the parent
\* context otherwise; the walk goes on, and the cursor is on the frontier
\* unless it had been visited before.
ForwardLatchContinues ==
  [][LatchStep =>
       /\ walker'.pc = "walking"
       /\ NextHeader \in walker'.Visited
       /\ \/ /\ OfferedLast(walker.pushed, walker'.pushed, NextHeader)
             /\ OfferedLast(walker.PList, walker'.PList, NextHeader)
             /\ NextHeader \notin walker.Visited
          \/ /\ OfferedLast(walker.refused, walker'.refused, NextHeader)
             /\ walker'.pushed = walker.pushed
             /\ NextHeader \in walker.Visited]_vars

\* A forward walk started inside an iteration has run off the last
\* iteration and reached the header in the parent context.
ForwardLatchContinuesWitness ==
  /\ walker.pc # "idle" /\ walker.dir = "FW"
  /\ isIteration(walker.pushed[1].ctx)
  /\ BIC(0, getHeader("L"), "root") \in Range(walker.pushed)

\* A forward walk started in iteration 0 has reached the header of
\* iteration 1.
ForwardEntersNextIteration ==
  /\ walker.pc # "idle" /\ walker.dir = "FW"
  /\ walker.pushed[1].ctx = getIteration(0)
  /\ BIC(0, getHeader("L"), getIteration(1)) \in Range(walker.pushed)

-----------------------------------------------------------------------------
(* A call without an inline attempt *)

\* The answers walkFromInst can give for the cursor of this round.
PossibleResults ==
  IF walker.dir = "BW"
  THEN walkFromInstBW(walker.visitor, ThisStart.BB,
                      IF ThisStart.it = 0 THEN end(ThisStart.BB)
                      ELSE ThisStart.it)
  ELSE walkFromInstFW(walker.visitor, ThisStart.BB, ThisStart.it)

\* This round's walkFromInst answered R.
RoundAnswered(R) ==
  /\ walking /\ walker.i < Len(walker.CList)
  /\ R \in PossibleResults
  /\ walker' = afterWalkFromInst(walker, ThisStart, R)

\* A round that stopped at the call a, which has no inline attempt.
UnexpandedCallStep ==
  /\ RoundAnswered(WalkResult("WIRContinue", "a"))
  /\ ~getInlineAttempt(State, ThisStart.ctx, "a")

\* C31: a round that stops at a call to be entered that has no inline attempt
\* either ends the whole walk, when blockedByUnexpandedCall answers true, or
\* queues nothing and leaves both buffers as they were, so that the cursors
\* already queued are walked next.
UnexpandedCallStopsPathOrWalk ==
  [][UnexpandedCallStep =>
       /\ walker'.pushed = walker.pushed
       /\ walker'.refused = walker.refused
       /\ walker'.PList = walker.PList
       /\ walker'.CList = walker.CList
       /\ walker'.Visited = walker.Visited
       /\ walker'.i = walker.i + 1
       /\ walker'.pc = IF walker.visitor.blocked THEN "stopped"
                       ELSE "walking"]_vars

\* A forward walk from the entry block stopped at the call a, which had no
\* inline attempt, and ended without a cursor beyond the block of the call.
UnexpandedCallStopsPathOrWalkWitness ==
  /\ walker.pc = "finished" /\ walker.dir = "FW"
  /\ walker.visitor.entersCalls /\ ~walker.visitor.blocked
  /\ ~inlineChildren
  /\ BIC(0, "A", "root") \in Range(walker.processed)
  /\ \A bic \in walker.Visited : bic.BB \in {"entry", "A", "B", "M"}
  /\ BIC(0, "M", "root") \in Range(walker.processed)

\* The walk was ended by blockedByUnexpandedCall.
BlockedWalkEnded ==
  /\ walker.pc = "stopped" /\ walker.visitor.blocked
  /\ ~inlineChildren
  /\ walker.PList # <<>>

-----------------------------------------------------------------------------
(* The visitor's answer *)

\* The cursors offered to queueWalkFrom in this step, accepted or not.
Offered ==
  Range(SubSeq(walker'.pushed, Len(walker.pushed) + 1, Len(walker'.pushed)))
    \cup Range(SubSeq(walker'.refused, Len(walker.refused) + 1,
                      Len(walker'.refused)))

\* The instructions walkFromInst presents to the visitor from the cursor it
\* in block BB until the visitor stops it, in the order presented, when the
\* cast after each instruction finds no call.
RECURSIVE presentedFW(_, _, _)
presentedFW(vis, BB, it) ==
  IF it = end(BB) THEN <<>>
  ELSE LET v == BlockInsts(BB)[it + 1]
       IN  IF walkInstruction(vis, v) # "WIRContinue" THEN <<v>>
           ELSE <<v>> \o presentedFW(vis, BB, it + 1)

RECURSIVE presentedBW(_, _, _)
presentedBW(vis, BB, it) ==
  IF it - 1 = 0 THEN <<>>
  ELSE LET v == BlockInsts(BB)[it]
       IN  IF walkInstruction(vis, v) # "WIRContinue" THEN <<v>>
           ELSE <<v>> \o presentedBW(vis, BB, it - 1)

presented ==
  IF walker.dir = "BW"
  THEN presentedBW(walker.visitor, ThisStart.BB, ThisStart.it)
  ELSE presentedFW(walker.visitor, ThisStart.BB, ThisStart.it)

\* The visitor's answer that ends the presentation: its first answer other
\* than continue, or continue when it gives no other.
visitorAnswer ==
  IF presented = <<>> THEN "WIRContinue"
  ELSE walkInstruction(walker.visitor, presented[Len(presented)])

\* A round of the loop over CList in which no call is presented to the
\* visitor; the backward round from the begin of a block is left aside.
PlainRound ==
  /\ walking /\ walker.i < Len(walker.CList)
  /\ walker' # walker
  /\ ~(walker.dir = "BW" /\ ThisStart.it = 0)
  /\ \A j \in 1..Len(presented) : Inst[presented[j]].op # "call"

neighbours ==
  IF walker.dir = "BW"
  THEN queuePredecessorsBW(State, ThisStart.ctx, ThisStart.BB)
  ELSE queueSuccessorsFW(State, ThisStart.ctx, ThisStart.BB)

\* C32: the visitor's answer decides the round.  Continue on every
\* instruction takes the walk to the neighbouring blocks; stop-this-path
\* queues nothing and leaves the buffers alone; stop-whole-walk ends the walk.
VisitorAnswerControlsWalk ==
  [][PlainRound =>
       CASE visitorAnswer = "WIRContinue" ->
              /\ walker'.pc = "walking"
              /\ Offered = Range(neighbours)
         [] visitorAnswer = "WIRStopThisPath" ->
              /\ walker'.pc = "walking"
              /\ Offered = {}
              /\ walker'.PList = walker.PList
              /\ walker'.CList = walker.CList
         [] OTHER ->
              /\ walker'.pc = "stopped"
              /\ Offered = {}]_vars

-----------------------------------------------------------------------------
(* The top of a scope's entry block *)

\* A backward round that reached the top of its block: no visitor stopped it
\* and no call did.
ReachedTop ==
  /\ RoundAnswered(WalkResult("WIRContinue", ""))
  /\ walker.dir = "BW"

\* The block a context is entered at: the function's entry block for an
\* inline attempt, the loop's header for an iteration.
scopeEntry(c) == IF isIteration(c) THEN getHeader("L") ELSE getEntryBlock(c)

\* The cursor in the dynamic predecessor context.
dynamicPredecessor(c) ==
  IF isIteration(c)
  THEN IF iterationCount(c) = 0
       THEN {BIC(end(getLoopPreheader("L")), getLoopPreheader("L"), parent(c))}
       ELSE {BIC(end(getLoopLatch("L")), getLoopLatch("L"),
                 getIteration(iterationCount(c) - 1))}
  ELSE IF parent(c) = "" THEN {}
  ELSE {BIC(callCursor(c), Inst["a"].bb, parent(c))}

\* C33: a backward round that reaches the top of the entry block of its
\* context offers exactly the cursor in the dynamic predecessor context: the
\* call in the caller (nothing for the root), the end of the preheader in the
\* parent for iteration 0, the end of the latch of iteration n-1 for
\* iteration n.
BackwardCrossesToPredecessorContext ==
  [][(ReachedTop /\ ThisStart.BB = scopeEntry(ThisStart.ctx)) =>
       /\ Offered = dynamicPredecessor(ThisStart.ctx)
       /\ walker'.pc = "walking"
       /\ \A bic \in Offered : bic \in walker'.Visited]_vars

\* A backward walk went from the header of iteration 1 to the latch of
\* iteration 0 and from the header of iteration 0 to the preheader.
BackwardCrossesWitness ==
  /\ walker.pc # "idle" /\ walker.dir = "BW"
  /\ BIC(end("H"), "H", getIteration(1)) \in Range(walker.processed)
  /\ BIC(end("T"), "T", getIteration(0)) \in Range(walker.pushed)
  /\ BIC(end("A"), "A", "root") \in Range(walker.pushed)

\* A backward walk started in the callee reached the call in the caller.
BackwardLeavesCallee ==
  /\ walker.pc # "idle" /\ walker.dir = "BW"
  /\ walker.pushed[1].ctx = "ia"
  /\ BIC(callCursor("ia"), "A", "root") \in Range(walker.pushed)

-----------------------------------------------------------------------------
(* A value used by an exit PHI *)

\* The values defined in the loop that an exit PHI outside the loop uses.
UsedByExitPHI ==
  {v \in Instructions :
     /\ getValueScope(Ref(v)) = "L"
     /\ \E j \in 1..Len(ExitPHIs) :
          \E k \in 1..Len(Inst[ExitPHIs[j]].ops) :
            Inst[ExitPHIs[j]].ops[k] = Ref(v)}

PeelAttemptFinal == Iterations > 0 /\ iterStatus[LastIteration] = "Final"

\* C34: while the peel attempt is not Final, a value of an iteration that an
\* exit PHI uses is not found dead and is not recorded dead.
ExitPHIUseKeepsValueLive ==
  (Iterations > 0 /\ ~PeelAttemptFinal) =>
    \A c \in ExistingCtx : \A v \in UsedByExitPHI :
      isIteration(c) =>
        /\ ~valueIsDead(State, c, v)
        /\ v \notin deadValues[c]

-----------------------------------------------------------------------------
(* A child loop without a peel attempt *)

\* A forward round that reached the bottom of its block.
ReachedBottom ==
  /\ RoundAnswered(WalkResult("WIRContinue", ""))
  /\ walker.dir = "FW"

\* The successors of the round's block over live edges that are headers of a
\* child loop of the round's context for which no peel attempt was made.
UnpeeledHeadersAhead ==
  {SB \in Range(succ(ThisStart.BB)) :
     /\ ~edgeIsDead(State, ThisStart.ctx, ThisStart.BB, SB)
     /\ getLoopFor(ThisStart.BB) = getLoopContext(ThisStart.ctx)
     /\ getLoopFor(SB) # getLoopContext(ThisStart.ctx)
     /\ SB = getHeader(getLoopFor(SB))
     /\ ~getPeelAttempt(State, getLoopFor(SB))}

\* C35: a forward round that follows a live edge into the header of a child
\* loop without a peel attempt goes on at that header in its own context.
ForwardWalksUnpeeledLoop ==
  [][ReachedBottom =>
       \A SB \in UnpeeledHeadersAhead :
         BIC(0, SB, ThisStart.ctx) \in Offered]_vars

-----------------------------------------------------------------------------
(* The first instruction of a block *)

\* A backward round: its cursor stands after the instructions above it.
BackwardRound ==
  /\ walking /\ walker.i < Len(walker.CList)
  /\ walker' # walker
  /\ walker.dir = "BW"

\* The instructions above the cursor, the nearest first.
RECURSIVE above(_, _)
above(BB, it) ==
  IF it = 0 THEN <<>> ELSE <<BlockInsts(BB)[it]>> \o above(BB, it - 1)

\* The visitor lets every instruction above the cursor pass and none of them
\* is a call.
NothingStopsAbove ==
  \A j \in 1..Len(above(ThisStart.BB, ThisStart.it)) :
    LET v == above(ThisStart.BB, ThisStart.it)[j]
    IN  /\ walkInstruction(walker.visitor, v) = "WIRContinue"
        /\ Inst[v].op # "call"

\* C36: a backward round whose visitor lets everything pass presents every
\* instruction above the cursor, the first of the block included, and then
\* offers the predecessors; from the first instruction of a block it offers
\* the predecessors at once.
BackwardPresentsWholeBlock ==
  [][(BackwardRound /\ NothingStopsAbove) =>
       /\ presentedBW(walker.visitor, ThisStart.BB,
                      IF ThisStart.it = 0 THEN 1 ELSE ThisStart.it)
            = above(ThisStart.BB, ThisStart.it)
       /\ walker'.pc = "walking"
       /\ Offered = Range(neighbours)]_vars

-----------------------------------------------------------------------------
(* Dead edges *)

\* The pair of blocks between the round's cursor and an offered cursor, in
\* the direction of control flow.
crossedEdge(bic) ==
  IF walker.dir = "BW" THEN <<bic.BB, ThisStart.BB>>
  ELSE <<ThisStart.BB, bic.BB>>

\* The context whose record decides whether the crossed edge is dead: the
\* context of the block the edge leaves.
edgeContext(bic) == IF walker.dir = "BW" THEN bic.ctx ELSE ThisStart.ctx

\* A round that went on to the neighbouring blocks.
CrossingRound ==
  /\ RoundAnswered(WalkResult("WIRContinue", ""))
  /\ Offered # {}

\* C37: no cursor is offered across an edge recorded dead in the context
\* being walked, and a callee is entered backwards only at return blocks
\* that are not dead.
NoCursorAcrossDeadEdge ==
  /\ [][CrossingRound =>
          \A bic \in Offered :
            crossedEdge(bic) \in Edges =>
              ~edgeIsDead(State, edgeContext(bic), crossedEdge(bic)[1],
                          crossedEdge(bic)[2])]_vars
  /\ [][(RoundAnswered(WalkResult("WIRContinue", "a")) /\ walker.dir = "BW") =>
          \A bic \in Offered : ~blockIsDead(State, bic.ctx, bic.BB)]_vars

-----------------------------------------------------------------------------
(* Comparisons against a symbolic file descriptor *)

\* The widest integer type the comparisons are enumerated for, in bits.
MaxCmpWidth == 4

RECURSIVE Pow2(_)
Pow2(w) == IF w = 0 THEN 1 ELSE 2 * Pow2(w - 1)

Predicates ==
  {"ICMP_EQ", "ICMP_NE", "ICMP_SGT", "ICMP_SGE", "ICMP_SLT", "ICMP_SLE",
   "ICMP_UGT", "ICMP_UGE", "ICMP_ULT", "ICMP_ULE"}

\* The widths of the constants: i1, the widest enumerated type, and a type
\* too wide for getSExtValue.
CmpWidths == {1, MaxCmpWidth, 128}

\* A ConstantInt: a width and the bits of the value.  Of the wide constants
\* only those with no bit set above MaxCmpWidth are enumerated.
ConstantInts ==
  UNION {{[width |-> w, bits |-> b] :
            b \in 0..(Pow2(IF w > MaxCmpWidth THEN MaxCmpWidth ELSE w) - 1)} :
         w \in CmpWidths}

getBitWidth(ci) == ci.width

\* ConstantInt::getSExtValue: the bits read as a two's complement number.
getSExtValue(ci) ==
  IF ci.bits >= Pow2(ci.width - 1) THEN ci.bits - Pow2(ci.width)
  ELSE ci.bits

\* The fold with the operand order ignored.
FoldIgnoringFlip(CmpIPred, CmpInt, flip) ==
  IF getBitWidth(CmpInt) > 64 THEN VCNull
  ELSE LET CmpVal == getSExtValue(CmpInt)
       IN  CASE CmpIPred = "ICMP_EQ" /\ CmpVal < 0 -> const_vc(0)
             [] CmpIPred = "ICMP_NE" /\ CmpVal < 0 -> const_vc(1)
             [] CmpIPred = "ICMP_SGT" /\ CmpVal < 0 -> const_vc(1)
             [] CmpIPred = "ICMP_SGE" /\ CmpVal <= 0 -> const_vc(1)
             [] CmpIPred = "ICMP_SLT" /\ CmpVal <= 0 -> const_vc(0)
             [] CmpIPred = "ICMP_SLE" /\ CmpVal < 0 -> const_vc(0)
             [] OTHER -> VCNull

\* IntegrationAttempt::tryFoldOpenCmp.  The handle is operand 0 unless flip.
tryFoldOpenCmp(CmpIPred, CmpInt, flip) ==
  IF getBitWidth(CmpInt) > 64 THEN VCNull
  ELSE LET Pred == IF ~flip THEN CmpIPred
                   ELSE CASE CmpIPred = "ICMP_SGT" -> "ICMP_SLT"
                          [] CmpIPred = "ICMP_SGE" -> "ICMP_SLE"
                          [] CmpIPred = "ICMP_SLT" -> "ICMP_SGT"
                          [] CmpIPred = "ICMP_SLE" -> "ICMP_SGE"
                          [] OTHER -> CmpIPred
           CmpVal == getSExtValue(CmpInt)
       IN  CASE Pred = "ICMP_EQ" /\ CmpVal < 0 -> const_vc(0)
             [] Pred = "ICMP_NE" /\ CmpVal < 0 -> const_vc(1)
             [] Pred = "ICMP_SGT" /\ CmpVal < 0 -> const_vc(1)
             [] Pred = "ICMP_SGE" /\ CmpVal <= 0 -> const_vc(1)
             [] Pred = "ICMP_SLT" /\ CmpVal <= 0 -> const_vc(0)
             [] Pred = "ICMP_SLE" /\ CmpVal < 0 -> const_vc(0)
             [] OTHER -> VCNull

\* The comparison being evaluated: tryEvaluateResult found that one operand
\* is a forwardable open call and the other the constant CmpInt.
Comparisons ==
  {[pc |-> "cmp", Pred |-> p, CmpInt |-> ci, flip |-> f] :
     p \in Predicates, ci \in ConstantInts, f \in BOOLEAN}

CmpInit ==
  /\ IntegratorAtRest
  /\ chase = Idle /\ attempts = Idle /\ walker = Idle
  /\ query \in Comparisons

\* tryEvaluateResult calls tryFoldOpenCmp for the comparison.
FoldOpenCmp ==
  /\ query.pc = "cmp"
  /\ query' = [pc |-> "folded", Pred |-> query.Pred, CmpInt |-> query.CmpInt,
               flip |-> query.flip,
               Improved |-> tryFoldOpenCmp(query.Pred, query.CmpInt,
                                           query.flip)]
  /\ UNCHANGED <<integratorVars, chase, attempts, walker>>

\* The next comparison is evaluated.
NextCmp ==
  /\ query.pc = "folded"
  /\ query' \in Comparisons
  /\ UNCHANGED <<integratorVars, chase, attempts, walker>>

CmpSpec == CmpInit /\ [][FoldOpenCmp \/ NextCmp]_vars

\* The handles of a type: the values that are not negative.
Handles(w) == 0..(Pow2(w - 1) - 1)

\* The value of icmp Pred a, b on two integers of one width, each given by
\* its two's complement value.
unsignedLess(a, b) == (a >= 0 /\ b < 0) \/ ((a < 0 <=> b < 0) /\ a < b)

icmp(Pred, a, b) ==
  CASE Pred = "ICMP_EQ" -> a = b
    [] Pred = "ICMP_NE" -> a # b
    [] Pred = "ICMP_SGT" -> a > b
    [] Pred = "ICMP_SGE" -> a >= b
    [] Pred = "ICMP_SLT" -> a < b
    [] Pred = "ICMP_SLE" -> a <= b
    [] Pred = "ICMP_UGT" -> unsignedLess(b, a)
    [] Pred = "ICMP_UGE" -> ~unsignedLess(a, b)
    [] Pred = "ICMP_ULT" -> unsignedLess(a, b)
    [] Pred = "ICMP_ULE" -> ~unsignedLess(b, a)

\* The comparison's value when the handle is h.
cmpValue(q, h) ==
  IF q.flip THEN icmp(q.Pred, getSExtValue(q.CmpInt), h)
  ELSE icmp(q.Pred, h, getSExtValue(q.CmpInt))

\* C38: a result of tryFoldOpenCmp is the comparison's value for every
\* handle that is not negative, whatever the predicate, the constant and the
\* operand order; there is no result for an unsigned predicate, for a
\* constant wider than 64 bits, or when the value depends on the handle.
OpenCmpFoldSound ==
  query.pc = "folded" =>
    LET w == getBitWidth(query.CmpInt)
        unsigned == query.Pred \in {"ICMP_UGT", "ICMP_UGE", "ICMP_ULT",
                                    "ICMP_ULE"}
    IN  /\ query.Improved \in {VCNull, const_vc(0), const_vc(1)}
        /\ (unsigned \/ w > 64) => query.Improved = VCNull
        /\ query.Improved # VCNull =>
             \A h \in Handles(w) :
               cmpValue(query, h) = (query.Improved = const_vc(1))
        /\ (w <= 64 /\ \E h1, h2 \in Handles(w) :
                         cmpValue(query, h1) # cmpValue(query, h2))
             => query.Improved = VCNull

\* With the constant first, -1 < h was folded to true.
OpenCmpFoldSoundWitness ==
  /\ query.pc = "folded"
  /\ query.flip /\ query.Pred = "ICMP_SLT"
  /\ getBitWidth(query.CmpInt) = MaxCmpWidth
  /\ getSExtValue(query.CmpInt) = -1
  /\ query.Improved = const_vc(1)

-----------------------------------------------------------------------------
(* The visited set between alias queries *)

\* The visited set left behind is returned as it is.
keepVisited(Vis) == Vis

\* Visited.clear()
clearVisited(Vis) == {}

\* IntegrationAttempt::basesMayAlias for one pair of pointer bases: it
\* compares the two bases and asks no alias query.
basesMayAlias == BOOLEAN

\* tryResolvePointerBases: MayAlias when a pointer base is unknown or two
\* bases may alias, NoAlias otherwise.  The visited set is not touched.
tryResolvePointerBases == {IF b THEN "MayAlias" ELSE "NoAlias" : b \in basesMayAlias}

\* Between queries only the visited set is kept.
QueriesInit ==
  /\ IntegratorAtRest
  /\ chase = Idle /\ attempts = Idle /\ walker = Idle
  /\ query = [pc |-> "ready", Visited |-> {}]

\* aliasHypothetical up to the return of aliasCheck: the recursion runs on
\* the visited set as the last query left it.
EnterAliasHypothetical ==
  /\ query.pc = "ready"
  /\ \E V1 \in PtrNames, V2 \in PtrNames, V1Size \in Sizes, V2Size \in Sizes,
        usePBKnowledge \in BOOLEAN :
       LET A == aliasCheck(V1, V1Size, V2, V2Size, query.Visited,
                           MaxQueryDepth)
       IN  query' = [pc |-> "checked", V1 |-> V1, V2 |-> V2,
                     usePBKnowledge |-> usePBKnowledge,
                     Alias |-> A.res, Visited |-> A.Visited,
                     enteredWith |-> query.Visited]
  /\ UNCHANGED <<integratorVars, chase, attempts, walker>>

\* The rest of aliasHypothetical: the pointer bases are asked when the answer
\* is MayAlias, the visited set is cleared, and the query returns.
ReturnAlias ==
  /\ query.pc = "checked"
  /\ \E Alias \in (IF query.Alias = "MayAlias" /\ query.usePBKnowledge
                   THEN tryResolvePointerBases ELSE {query.Alias}) :
       query' = [pc |-> "ready", Visited |-> clearVisited(query.Visited)]
  /\ UNCHANGED <<integratorVars, chase, attempts, walker>>

QueriesSpec == QueriesInit /\ [][EnterAliasHypothetical \/ ReturnAlias]_vars

\* C39: the visited set is empty whenever a query is entered and whenever one
\* has returned, whatever the queries before it were and whatever recursion
\* through aliasGEP, aliasPHI and aliasSelect they made.
VisitedEmptyBetweenQueries ==
  /\ query.pc = "ready" => query.Visited = {}
  /\ query.pc = "checked" => query.enteredWith = {}

\* A query whose recursion went through a PHI and a GEP has left both in the
\* visited set, and is about to return.
VisitedEmptyBetweenQueriesWitness ==
  /\ query.pc = "checked"
  /\ \E v \in query.Visited : isPHI(v)
  /\ \E v \in query.Visited : isGEP(v)

====
